---- MODULE Spec2Model ----
(***************************************************************************)
(* A model of the nym crate: the equality-of-discrete-logs proof Pi        *)
(* (proof/dlog_eq.rs), its blinded variant Gamma (proof/blind_dlog_eq.rs), *)
(* the non-interactive transcript check, and the pseudonym and credential  *)
(* protocols of nym.rs, run by two roles over a pair of FIFO channels.     *)
(*                                                                         *)
(* The Ristretto group is a cyclic group of prime order; it is modelled as *)
(* the additive group of integers modulo the prime Q, the point k.G being  *)
(* the number k.  Scalars are the field of integers modulo Q.              *)
(*                                                                         *)
(* dlog_eq.rs declares the fields of Publics as (g, h, g1, h1) while every *)
(* caller builds it as (g1, h1, g2, h2); the model uses the callers' names *)
(* positionally: g -> g1, h -> h1, g1 -> g2, h1 -> h2.                     *)
(***************************************************************************)
EXTENDS Integers, Sequences, FiniteSets, TLC

VARIABLES
    proto,   \* the protocol pair being run
    inp,     \* the arguments and keys the two roles were called with
    inbox,   \* inbox[s]: the FIFO queue of messages sent to role s
    pc,      \* pc[s]: the channel operation role s performs next
    loc,     \* loc[s]: the local variables of role s
    res,     \* res[s]: what role s returned ("none" while running)
    out,     \* out[s]: the value role s returned with Ok
    ro,      \* the hash queries answered so far, as <<query, answer>> pairs
    tamper,  \* the label of the message the transport altered, or "none"
    wire,    \* the <<sender, label>> of every message sent so far, in order
    io,      \* io[s]: the failure a channel operation of role s met, or "ok"
    dropped  \* the roles whose end of the channel the caller has dropped

vars == <<proto, inp, inbox, pc, loc, res, out, ro, tamper, wire, io, dropped>>

-----------------------------------------------------------------------------
(* The group and its scalar field *)

Q == 3
Scalar == 0 .. (Q - 1)
Point == 0 .. (Q - 1)
RISTRETTO_BASEPOINT_POINT == 1
Identity == 0

\* scalar * point, point + point, scalar + scalar, scalar * scalar
Mul(s, p) == (s * p) % Q
Add(p, q) == (p + q) % Q

Side == {"user", "org"}
Peer(s) == IF s = "user" THEN "org" ELSE "user"

Publics(g1, h1, g2, h2) == [g1 |-> g1, h1 |-> h1, g2 |-> g2, h2 |-> h2]
PublicsSet == [g1 : Point, h1 : Point, g2 : Point, h2 : Point]

Transcript(a, b, c, y) == [a |-> a, b |-> b, c |-> c, y |-> y]
TranscriptSet == [a : Point, b : Point, c : Scalar, y : Scalar]

Nym(a, b) == [a |-> a, b |-> b]

Cred(a, b, A, B, T1, T2) ==
    [a |-> a, b |-> b, A |-> A, B |-> B, T1 |-> T1, T2 |-> T2]

NoPublics == Publics(0, 0, 0, 0)
NoTranscript == Transcript(0, 0, 0, 0)
NoNym == Nym(0, 0)
NoCred == Cred(0, 0, 0, 0, NoTranscript, NoTranscript)

-----------------------------------------------------------------------------
(* Keys *)

\* SecretKey::to_public: the point x.G
to_public(x) == Mul(x, RISTRETTO_BASEPOINT_POINT)

\* OrgSecretKey::to_public: (key1, key2)
OrgPublicKey(x1, x2) == [key1 |-> to_public(x1), key2 |-> to_public(x2)]

\* key.rs, prove_ownership / verify_ownership of one public point:
\* Publics { g1: G, h1: public, g2: G, h2: public }
OwnershipPublics(public) ==
    Publics(RISTRETTO_BASEPOINT_POINT, public, RISTRETTO_BASEPOINT_POINT,
            public)

\* OrgSecretKey::prove_ownership, first call: to_public().key1 and
\* key1.exponent()
OrgSecretKey_first(x1, x2) ==
    [public |-> OrgPublicKey(x1, x2).key1, secret |-> x1]

\* An organization that proves the first component a second time
OrgSecretKey_second_first_again(x1, x2) ==
    [public |-> OrgPublicKey(x1, x2).key1, secret |-> x1]

\* OrgSecretKey::prove_ownership, second call: to_public().key2 and
\* key2.exponent()
OrgSecretKey_second(x1, x2) ==
    [public |-> OrgPublicKey(x1, x2).key2, secret |-> x2]

-----------------------------------------------------------------------------
(* The transport: a labelled FIFO queue per direction *)

Msg(label, value) == [label |-> label, value |-> value]

\* send(label, value) by role s succeeds while the peer's end is held:
\* the message is appended to the peer's queue
Send(s, label, value) ==
    /\ Peer(s) \notin dropped
    /\ inbox' = [inbox EXCEPT ![Peer(s)] = Append(@, Msg(label, value))]
    /\ wire' = Append(wire, <<s, label>>)

\* receive(label) by role s can complete: the next message bears the label
CanReceive(s, label) ==
    /\ inbox[s] # <<>>
    /\ Head(inbox[s]).label = label

Received(s) == Head(inbox[s]).value

Consume(s) ==
    /\ inbox' = [inbox EXCEPT ![s] = Tail(@)]
    /\ UNCHANGED wire

\* The transport delivers something else than what was sent: the value of
\* the next message for role s is replaced, once in a run.
Tamper(s) ==
    /\ tamper = "none"
    /\ inbox[s] # <<>>
    /\ res["user"] = "none" /\ res["org"] = "none"
    /\ \E v \in 0 .. (Q - 1) :
          /\ v # Head(inbox[s]).value
          /\ inbox' = [inbox EXCEPT ![s] =
                          <<Msg(Head(@).label, v)>> \o Tail(@)]
    /\ tamper' = Head(inbox[s]).label
    /\ UNCHANGED <<proto, inp, pc, loc, res, out, ro, wire, io, dropped>>

-----------------------------------------------------------------------------
(* Local state of a role *)

Loc0 ==
    [pub |-> NoPublics, x |-> 0, phase |-> 0,
     r |-> 0, a |-> 0, b |-> 0, c |-> 0, y |-> 0,
     alpha |-> 0, beta |-> 0, a1 |-> 0, b1 |-> 0, cs |-> 0, gamma |-> 0,
     na_ |-> 0, nb_ |-> 0, na |-> 0, nb |-> 0,
     A |-> 0, B |-> 0, T1 |-> NoTranscript]

Out0 == [nym |-> NoNym, cred |-> NoCred, T |-> NoTranscript]

Inp0 ==
    [ux |-> 0, hx |-> 0, ox1 |-> 0, ox2 |-> 0,
     umode |-> "plain", omode |-> "plain", user_key |-> 0,
     nym |-> NoNym, cred |-> NoCred, issued |-> NoCred,
     source_key |-> OrgPublicKey(0, 0), gamma |-> 0,
     sign_nym |-> NoNym, sign_t |-> "", verify_t |-> ""]

-----------------------------------------------------------------------------
(* Returning from a role *)

Step(s, nextpc, l) ==
    /\ pc' = [pc EXCEPT ![s] = nextpc]
    /\ loc' = [loc EXCEPT ![s] = l]
    /\ UNCHANGED <<res, out>>

Return(s, result, l, o) ==
    /\ pc' = [pc EXCEPT ![s] = "done"]
    /\ loc' = [loc EXCEPT ![s] = l]
    /\ res' = [res EXCEPT ![s] = result]
    /\ out' = [out EXCEPT ![s] = o]

-----------------------------------------------------------------------------
(* Protocol Pi: proof/dlog_eq.rs *)

\* A prover that ends with an error of its own once it has sent y
ProveReturnsOk_rejecting(s, l) == Return(s, "BadProof", l, out[s])

\* What the caller of dlog_eq::prove does once prove has returned Ok(())
ProveReturnsOk(s, l) ==
    CASE proto = "nymgen" ->
            Return(s, "Ok", l, [out[s] EXCEPT !.nym = Nym(l.na, l.nb)])
      [] proto = "own" /\ l.phase = 1 ->
            LET k == OrgSecretKey_second(inp.ox1, inp.ox2)
            IN  Step(s, "prove.a",
                     [l EXCEPT !.phase = 2, !.pub = OwnershipPublics(k.public),
                               !.x = k.secret])
      [] OTHER -> Return(s, "Ok", l, out[s])

\* An organization that returns the seed point in place of the nym's a
VerifyReturnsOk_seed(s, l) ==
    CASE proto = "nymgen" ->
            Return(s, "Ok", l, [out[s] EXCEPT !.nym = Nym(l.na_, l.nb)])
      [] proto = "own" /\ l.phase = 1 ->
            Step(s, "verify.a",
                 [l EXCEPT !.phase = 2,
                           !.pub = OwnershipPublics(inp.source_key.key2),
                           !.T1 = Transcript(l.a, l.b, l.c, l.y)])
      [] OTHER -> Return(s, "Ok", l, out[s])

\* What the caller of dlog_eq::verify does once verify has returned Ok(());
\* in verify_ownership the messages of the accepted first run are kept in T1
VerifyReturnsOk(s, l) ==
    CASE proto = "nymgen" ->
            Return(s, "Ok", l, [out[s] EXCEPT !.nym = Nym(l.na, l.nb)])
      [] proto = "own" /\ l.phase = 1 ->
            Step(s, "verify.a",
                 [l EXCEPT !.phase = 2,
                           !.pub = OwnershipPublics(inp.source_key.key2),
                           !.T1 = Transcript(l.a, l.b, l.c, l.y)])
      [] OTHER -> Return(s, "Ok", l, out[s])

\* prove: let r = random; a = r * g1; b = r * g2; send("a", a)
Prove_SendA(s) ==
    /\ pc[s] = "prove.a"
    /\ \E r \in Scalar :
          LET a == Mul(r, loc[s].pub.g1)
              b == Mul(r, loc[s].pub.g2)
          IN  /\ Send(s, "a", a)
              /\ Step(s, "prove.b", [loc[s] EXCEPT !.r = r, !.a = a, !.b = b])
    /\ UNCHANGED <<proto, inp, ro, tamper, io, dropped>>

\* prove: send("b", b)
Prove_SendB(s) ==
    /\ pc[s] = "prove.b"
    /\ Send(s, "b", loc[s].b)
    /\ Step(s, "prove.c", loc[s])
    /\ UNCHANGED <<proto, inp, ro, tamper, io, dropped>>

\* A prover that multiplies the nonce, not the witness, by the challenge
Response_swapped(r, c, x) == Add(x, Mul(c, r))

\* prove: y = r + c * x
Response(r, c, x) == Add(r, Mul(c, x))

\* prove: c = receive("c"); y = r + c * x
Prove_RecvC(s) ==
    /\ pc[s] = "prove.c"
    /\ CanReceive(s, "c")
    /\ LET c == Received(s)
           y == Response(loc[s].r, c, loc[s].x)
       IN  Step(s, "prove.y", [loc[s] EXCEPT !.c = c, !.y = y])
    /\ Consume(s)
    /\ UNCHANGED <<proto, inp, ro, tamper, io, dropped>>

\* A prover that sends its response twice
Prove_SendY_twice(s) ==
    /\ pc[s] = "prove.y"
    /\ Peer(s) \notin dropped
    /\ inbox' = [inbox EXCEPT ![Peer(s)] =
                    @ \o <<Msg("y", loc[s].y), Msg("y", loc[s].y)>>]
    /\ wire' = wire \o <<<<s, "y">>, <<s, "y">>>>
    /\ ProveReturnsOk(s, loc[s])
    /\ UNCHANGED <<proto, inp, ro, tamper, io, dropped>>

\* prove: send("y", y); Ok(())
Prove_SendY(s) ==
    /\ pc[s] = "prove.y"
    /\ Send(s, "y", loc[s].y)
    /\ ProveReturnsOk(s, loc[s])
    /\ UNCHANGED <<proto, inp, ro, tamper, io, dropped>>

\* A verifier that challenges as soon as it has received a
Verify_RecvA_then_c(s) ==
    /\ pc[s] = "verify.a"
    /\ CanReceive(s, "a")
    /\ Step(s, "verify.c", [loc[s] EXCEPT !.a = Received(s)])
    /\ Consume(s)
    /\ UNCHANGED <<proto, inp, ro, tamper, io, dropped>>

\* verify: a = receive("a")
Verify_RecvA(s) ==
    /\ pc[s] = "verify.a"
    /\ CanReceive(s, "a")
    /\ Step(s, "verify.b", [loc[s] EXCEPT !.a = Received(s)])
    /\ Consume(s)
    /\ UNCHANGED <<proto, inp, ro, tamper, io, dropped>>

\* verify: b = receive("b")
Verify_RecvB(s) ==
    /\ pc[s] = "verify.b"
    /\ CanReceive(s, "b")
    /\ Step(s, "verify.c", [loc[s] EXCEPT !.b = Received(s)])
    /\ Consume(s)
    /\ UNCHANGED <<proto, inp, ro, tamper, io, dropped>>

\* verify: c = random; send("c", c)
Verify_SendC(s) ==
    /\ pc[s] = "verify.c"
    /\ \E c \in Scalar :
          /\ Send(s, "c", c)
          /\ Step(s, "verify.y", [loc[s] EXCEPT !.c = c])
    /\ UNCHANGED <<proto, inp, ro, tamper, io, dropped>>

\* a_ok: y * g1 == a + c * h1
A_ok(p, a, c, y) == Mul(y, p.g1) = Add(a, Mul(c, p.h1))

\* b_ok: y * g2 == b + c * h2
B_ok(p, b, c, y) == Mul(y, p.g2) = Add(b, Mul(c, p.h2))

\* A verifier satisfied with either equation
Accepts_either(a_ok, b_ok) == a_ok \/ b_ok

\* verify: if a_ok & b_ok
Accepts(a_ok, b_ok) == a_ok /\ b_ok

\* verify: y = receive("y"); if a_ok & b_ok { Ok(()) } else { Err(BadProof) }
Verify_RecvY(s) ==
    /\ pc[s] = "verify.y"
    /\ CanReceive(s, "y")
    /\ LET y == Received(s)
           l == [loc[s] EXCEPT !.y = y]
       IN  IF Accepts(A_ok(l.pub, l.a, l.c, y), B_ok(l.pub, l.b, l.c, y))
           THEN VerifyReturnsOk(s, l)
           ELSE Return(s, "BadProof", l, out[s])
    /\ Consume(s)
    /\ UNCHANGED <<proto, inp, ro, tamper, io, dropped>>

-----------------------------------------------------------------------------
(* A run of Pi alone: the user proves, the organization verifies *)

InitPi ==
    /\ proto = "pi"
    /\ \E g1 \in Point, g2 \in Point, x \in Scalar :
          LET p == Publics(g1, Mul(x, g1), g2, Mul(x, g2))
          IN  /\ inp = [Inp0 EXCEPT !.hx = x, !.ux = x]
              /\ loc = [s \in Side |->
                          IF s = "user" THEN [Loc0 EXCEPT !.pub = p, !.x = x]
                                        ELSE [Loc0 EXCEPT !.pub = p]]
    /\ inbox = [s \in Side |-> <<>>]
    /\ pc = [s \in Side |-> IF s = "user" THEN "prove.a" ELSE "verify.a"]
    /\ res = [s \in Side |-> "none"]
    /\ out = [s \in Side |-> Out0]
    /\ ro = {}
    /\ tamper = "none"
    /\ wire = <<>>
    /\ io = [s \in Side |-> "ok"]
    /\ dropped = {}

PiProver == \/ Prove_SendA("user")
            \/ Prove_SendB("user")
            \/ Prove_RecvC("user")
            \/ Prove_SendY("user")

PiVerifier == \/ Verify_RecvA("org")
              \/ Verify_RecvB("org")
              \/ Verify_SendC("org")
              \/ Verify_RecvY("org")

NextPi == PiProver \/ PiVerifier \/ (\E s \in Side : Tamper(s))

SpecPi == InitPi /\ [][NextPi]_vars

-----------------------------------------------------------------------------
(* Claims about Pi, checked under SpecPi *)

PiVerdict == proto = "pi" /\ res["org"] # "none"

\* C5: Pi completeness.  For all bases g1, g2 and every witness x, with
\* h1 = x.g1 and h2 = x.g2, an honest prove run against verify over the FIFO
\* channel ends with the verifier returning Ok, for every nonce r and every
\* challenge c.
C5_PiCompleteness ==
    (PiVerdict /\ tamper = "none") => res["org"] = "Ok"

\* An honest run on a statement with no trivial part has been accepted.
C5_Witness ==
    /\ PiVerdict /\ tamper = "none" /\ res["org"] = "Ok"
    /\ res["user"] = "Ok"
    /\ loc["org"].pub.g1 # Identity /\ loc["org"].pub.g2 # Identity
    /\ loc["org"].pub.g1 # loc["org"].pub.g2
    /\ inp.hx # 0 /\ loc["user"].r # 0 /\ loc["org"].c # 0

\* C6 as stated: once exactly one of a, b, c, y of an honest run has been
\* replaced by a different value, verify returns BadProof.
C6_AnyReplacementRejected ==
    (PiVerdict /\ tamper # "none") => res["org"] = "BadProof"

\* C6 as amended: a replaced a or b is always rejected; a replaced y is
\* rejected when g1 or g2 is not the identity; a prover answering another
\* challenge than the one sent is rejected when h1 or h2 is not the identity.
C6_ReplacementRejected ==
    LET p == loc["org"].pub
    IN  (/\ PiVerdict
         /\ \/ tamper \in {"a", "b"}
            \/ tamper = "y" /\ (p.g1 # Identity \/ p.g2 # Identity)
            \/ tamper = "c" /\ (p.h1 # Identity \/ p.h2 # Identity))
        => res["org"] = "BadProof"

\* Each of the four replacements has been made and rejected.
C6_Witness ==
    /\ PiVerdict /\ res["org"] = "BadProof"
    /\ tamper = "c" /\ loc["user"].c # loc["org"].c
    /\ loc["org"].pub.g1 # Identity /\ loc["org"].pub.h2 # Identity

-----------------------------------------------------------------------------
(* Pseudonym generation: nym.rs, Org::generate_nym, Org::generate_nym_as_ca,
   User::generate_nym, User::generate_nym_with_ca, User::generate_nym_impl *)

\* The statement proved at the end of pseudonym generation
NymPublics(l) == Publics(l.na, l.nb, l.na_, l.nb_)

\* User::generate_nym: gamma = random; a_ = gamma * G; b_ = x * a_;
\* then generate_nym_impl: send("a~", a_)
User_generate_nym ==
    /\ pc["user"] = "gn.start" /\ inp.umode = "plain"
    /\ \E gamma \in Scalar :
          LET a_ == Mul(gamma, RISTRETTO_BASEPOINT_POINT)
              b_ == Mul(inp.ux, a_)
          IN  /\ Send("user", "a~", a_)
              /\ Step("user", "gn.b~",
                      [loc["user"] EXCEPT !.gamma = gamma, !.na_ = a_, !.nb_ = b_])
    /\ UNCHANGED <<proto, inp, ro, tamper, io, dropped>>

\* User::generate_nym_with_ca: a_ = G; b_ = pk.point();
\* then generate_nym_impl: send("a~", a_)
User_generate_nym_with_ca ==
    /\ pc["user"] = "gn.start" /\ inp.umode = "with_ca"
    /\ LET a_ == RISTRETTO_BASEPOINT_POINT
           b_ == to_public(inp.ux)
       IN  /\ Send("user", "a~", a_)
           /\ Step("user", "gn.b~", [loc["user"] EXCEPT !.na_ = a_, !.nb_ = b_])
    /\ UNCHANGED <<proto, inp, ro, tamper, io, dropped>>

\* generate_nym_impl: send("b~", b_)
User_impl_SendB_ ==
    /\ pc["user"] = "gn.b~"
    /\ Send("user", "b~", loc["user"].nb_)
    /\ Step("user", "gn.a", loc["user"])
    /\ UNCHANGED <<proto, inp, ro, tamper, io, dropped>>

\* generate_nym_impl: a = receive("a"); b = x * a
User_impl_RecvA ==
    /\ pc["user"] = "gn.a"
    /\ CanReceive("user", "a")
    /\ LET a == Received("user")
           b == Mul(inp.ux, a)
       IN  Step("user", "gn.b", [loc["user"] EXCEPT !.na = a, !.nb = b])
    /\ Consume("user")
    /\ UNCHANGED <<proto, inp, ro, tamper, io, dropped>>

\* generate_nym_impl: send("b", b); then dlog_eq::prove on (a, b, a_, b_)
User_impl_SendB ==
    /\ pc["user"] = "gn.b"
    /\ Send("user", "b", loc["user"].nb)
    /\ Step("user", "prove.a",
            [loc["user"] EXCEPT !.pub = NymPublics(loc["user"]), !.x = inp.ux])
    /\ UNCHANGED <<proto, inp, ro, tamper, io, dropped>>

\* Org::generate_nym: a_ = receive("a~")
Org_generate_nym_RecvA_ ==
    /\ pc["org"] = "ogn.a~"
    /\ CanReceive("org", "a~")
    /\ Step("org", "ogn.b~", [loc["org"] EXCEPT !.na_ = Received("org")])
    /\ Consume("org")
    /\ UNCHANGED <<proto, inp, ro, tamper, io, dropped>>

\* Org::generate_nym: b_ = receive("b~")
Org_generate_nym_RecvB_ ==
    /\ pc["org"] = "ogn.b~"
    /\ CanReceive("org", "b~")
    /\ Step("org", "ogn.a", [loc["org"] EXCEPT !.nb_ = Received("org")])
    /\ Consume("org")
    /\ UNCHANGED <<proto, inp, ro, tamper, io, dropped>>

\* Org::generate_nym: r = random; a = r * a_; send("a", a)
Org_generate_nym_SendA ==
    /\ pc["org"] = "ogn.a"
    /\ \E r \in Scalar :
          LET a == Mul(r, loc["org"].na_)
          IN  /\ Send("org", "a", a)
              /\ Step("org", "ogn.b", [loc["org"] EXCEPT !.na = a])
    /\ UNCHANGED <<proto, inp, ro, tamper, io, dropped>>

\* Org::generate_nym: b = receive("b"); then dlog_eq::verify on (a, b, a_, b_)
Org_generate_nym_RecvB ==
    /\ pc["org"] = "ogn.b"
    /\ CanReceive("org", "b")
    /\ LET l == [loc["org"] EXCEPT !.nb = Received("org")]
       IN  Step("org", "verify.a", [l EXCEPT !.pub = NymPublics(l)])
    /\ Consume("org")
    /\ UNCHANGED <<proto, inp, ro, tamper, io, dropped>>

\* Org::generate_nym_as_ca: a_ = receive("a~")
Org_as_ca_RecvA_ ==
    /\ pc["org"] = "ca.a~"
    /\ CanReceive("org", "a~")
    /\ Step("org", "ca.b~", [loc["org"] EXCEPT !.na_ = Received("org")])
    /\ Consume("org")
    /\ UNCHANGED <<proto, inp, ro, tamper, io, dropped>>

\* A CA that checks the seed base only
CaAdmits_base_only(a_, b_, user_key) == a_ = RISTRETTO_BASEPOINT_POINT

\* generate_nym_as_ca: neither `a_ != G` nor `b_ != user_key.point()`
CaAdmits(a_, b_, user_key) ==
    /\ ~(a_ # RISTRETTO_BASEPOINT_POINT)
    /\ ~(b_ # user_key)

\* Org::generate_nym_as_ca: b_ = receive("b~"); the two checks
Org_as_ca_RecvB_ ==
    /\ pc["org"] = "ca.b~"
    /\ CanReceive("org", "b~")
    /\ LET l == [loc["org"] EXCEPT !.nb_ = Received("org")]
       IN  IF CaAdmits(l.na_, l.nb_, inp.user_key)
           THEN Step("org", "ca.a", l)
           ELSE Return("org", "BadProof", l, out["org"])
    /\ Consume("org")
    /\ UNCHANGED <<proto, inp, ro, tamper, io, dropped>>

\* Org::generate_nym_as_ca: r = random; a = r * a_; send("a", a)
Org_as_ca_SendA ==
    /\ pc["org"] = "ca.a"
    /\ \E r \in Scalar :
          LET a == Mul(r, loc["org"].na_)
          IN  /\ Send("org", "a", a)
              /\ Step("org", "ca.b", [loc["org"] EXCEPT !.na = a])
    /\ UNCHANGED <<proto, inp, ro, tamper, io, dropped>>

\* Org::generate_nym_as_ca: b = receive("b"); then dlog_eq::verify
Org_as_ca_RecvB ==
    /\ pc["org"] = "ca.b"
    /\ CanReceive("org", "b")
    /\ LET l == [loc["org"] EXCEPT !.nb = Received("org")]
       IN  Step("org", "verify.a", [l EXCEPT !.pub = NymPublics(l)])
    /\ Consume("org")
    /\ UNCHANGED <<proto, inp, ro, tamper, io, dropped>>

\* A user with master secret x generates a nym, plainly or with a CA, against
\* an organization that runs generate_nym or generate_nym_as_ca(user_key).
InitNym ==
    /\ proto = "nymgen"
    /\ \E x \in Scalar, um \in {"plain", "with_ca"}, om \in {"plain", "as_ca"},
          k \in Point :
          /\ om = "plain" => k = to_public(x)
          /\ inp = [Inp0 EXCEPT !.ux = x, !.hx = x, !.umode = um, !.omode = om,
                                !.user_key = k]
          /\ pc = [s \in Side |-> IF s = "user" THEN "gn.start"
                                  ELSE IF om = "plain" THEN "ogn.a~" ELSE "ca.a~"]
    /\ loc = [s \in Side |-> Loc0]
    /\ inbox = [s \in Side |-> <<>>]
    /\ res = [s \in Side |-> "none"]
    /\ out = [s \in Side |-> Out0]
    /\ ro = {}
    /\ tamper = "none"
    /\ wire = <<>>
    /\ io = [s \in Side |-> "ok"]
    /\ dropped = {}

NymUser == \/ User_generate_nym
           \/ User_generate_nym_with_ca
           \/ User_impl_SendB_
           \/ User_impl_RecvA
           \/ User_impl_SendB

NymOrg == \/ Org_generate_nym_RecvA_
          \/ Org_generate_nym_RecvB_
          \/ Org_generate_nym_SendA
          \/ Org_generate_nym_RecvB
          \/ Org_as_ca_RecvA_
          \/ Org_as_ca_RecvB_
          \/ Org_as_ca_SendA
          \/ Org_as_ca_RecvB

NextNym == NymUser \/ NymOrg \/ PiProver \/ PiVerifier

SpecNym == InitNym /\ [][NextNym]_vars

-----------------------------------------------------------------------------
(* Claims about pseudonym generation, checked under SpecNym *)

BothOk == res["user"] = "Ok" /\ res["org"] = "Ok"

\* C1: after an honest run of User.generate_nym against Org.generate_nym in
\* which both roles return Ok, the two returned Nym values are equal and the
\* nym satisfies b = x.a for the user's master secret x, whatever x, the
\* user's gamma and the organization's r are.
C1_NymValidity ==
    (proto = "nymgen" /\ inp.umode = "plain" /\ inp.omode = "plain" /\ BothOk)
    => /\ out["user"].nym = out["org"].nym
       /\ out["org"].nym.b = Mul(inp.ux, out["org"].nym.a)

\* Both roles returned a nym with a # identity, made with x > 1 and
\* r.gamma # 1.
C1_Witness ==
    /\ proto = "nymgen" /\ inp.umode = "plain" /\ inp.omode = "plain" /\ BothOk
    /\ out["user"].nym.a # Identity
    /\ out["user"].nym.a # loc["user"].na_
    /\ inp.ux > 1 /\ loc["org"].c # 0

\* The CA has received both seed values
CaReceivedSeeds == proto = "nymgen" /\ inp.omode = "as_ca"
                   /\ pc["org"] \notin {"ca.a~", "ca.b~"}

\* C10: generate_nym_as_ca returns BadProof whenever the received a~ differs
\* from G or the received b~ differs from the point of the claimed user key;
\* and when the honest generate_nym_with_ca runs against it with the user's
\* real public key, neither check rejects and both roles return the same Nym.
C10_CaGating ==
    /\ (CaReceivedSeeds /\ (\/ loc["org"].na_ # RISTRETTO_BASEPOINT_POINT
                            \/ loc["org"].nb_ # inp.user_key))
       => res["org"] = "BadProof"
    /\ (/\ proto = "nymgen" /\ inp.omode = "as_ca" /\ inp.umode = "with_ca"
        /\ inp.user_key = to_public(inp.ux))
       => /\ res["org"] # "BadProof" /\ res["user"] # "BadProof"
          /\ (res["user"] # "none" /\ res["org"] # "none")
             => (BothOk /\ out["user"].nym = out["org"].nym)

\* The CA rejected a seed b~ that is not the claimed key although a~ = G.
C10_Witness ==
    /\ CaReceivedSeeds /\ res["org"] = "BadProof"
    /\ loc["org"].na_ = RISTRETTO_BASEPOINT_POINT
    /\ loc["org"].nb_ # inp.user_key

\* A run with the CA went through and both roles hold the same nym.
C10_WitnessHonest ==
    /\ proto = "nymgen" /\ inp.omode = "as_ca" /\ inp.umode = "with_ca"
    /\ inp.user_key = to_public(inp.ux) /\ inp.ux # 0
    /\ BothOk /\ out["user"].nym = out["org"].nym
    /\ out["org"].nym.a # Identity

-----------------------------------------------------------------------------
(* Hashing: hash.rs and the two challenge derivations.  A hash is a fixed
   but unknown function of the transcript label and of the labelled values
   committed to it: a query asked before gets the answer it got, a new query
   gets any scalar. *)

\* A derivation that commits b before a
NIQuery_b_first(p, a, b) ==
    <<"nym/0.1/dlog-eq-proof/non-interactive-challenge",
      <<"g", p.g1>>, <<"h", p.h1>>, <<"g~", p.g2>>, <<"h~", p.h2>>,
      <<"b", b>>, <<"a", a>>, "c">>

\* dlog_eq::non_interactive_challenge_for: what is committed, in order
NIQuery(p, a, b) ==
    <<"nym/0.1/dlog-eq-proof/non-interactive-challenge",
      <<"g", p.g1>>, <<"h", p.h1>>, <<"g~", p.g2>>, <<"h~", p.h2>>,
      <<"a", a>>, <<"b", b>>, "c">>

\* blind_dlog_eq::hash: what is committed, in order
BlindQuery(a, b) ==
    <<"blind-dlog-eq-proof/non-interactive-challenge",
      <<"a", a>>, <<"b", b>>, "$finalize">>

Asked(q) == \E e \in ro : e[1] = q

\* h is the hash of q
Hashes(q, h) == IF Asked(q) THEN <<q, h>> \in ro ELSE h \in Scalar

Record(q, h) == ro' = ro \cup {<<q, h>>}

-----------------------------------------------------------------------------
(* Protocol Gamma: proof/blind_dlog_eq.rs *)

\* The two statements of an issuance, as Org::issue_credential builds them
OrgIssuePublics(phase, A, B) ==
    IF phase = 1
    THEN Publics(RISTRETTO_BASEPOINT_POINT, OrgPublicKey(inp.ox1, inp.ox2).key2,
                 inp.nym.b, A)
    ELSE Publics(RISTRETTO_BASEPOINT_POINT, OrgPublicKey(inp.ox1, inp.ox2).key1,
                 Add(inp.nym.a, A), B)

\* The two statements of an issuance, as User::issue_credential builds them
UserIssuePublics(phase, A, B) ==
    IF phase = 1
    THEN Publics(RISTRETTO_BASEPOINT_POINT, inp.source_key.key2, inp.nym.b, A)
    ELSE Publics(RISTRETTO_BASEPOINT_POINT, inp.source_key.key1,
                 Add(inp.nym.a, A), B)

\* What the caller of blind_dlog_eq::prove does once prove has returned Ok(())
BProveReturnsOk(s, l) ==
    CASE proto = "issue" /\ l.phase = 1 ->
            Step(s, "bprove.a",
                 [l EXCEPT !.phase = 2, !.pub = OrgIssuePublics(2, l.A, l.B),
                           !.x = inp.ox1])
      [] OTHER -> Return(s, "Ok", l, out[s])

\* What the caller of blind_dlog_eq::verify does once verify has returned
\* Ok(T)
BVerifyReturnsOk(s, l, T) ==
    CASE proto = "issue" /\ l.phase = 1 ->
            Step(s, "bverify.a",
                 [l EXCEPT !.phase = 2, !.pub = UserIssuePublics(2, l.A, l.B),
                           !.T1 = T])
      [] proto = "issue" /\ l.phase = 2 ->
            Return(s, "Ok", l,
                   [out[s] EXCEPT !.cred =
                       Cred(Mul(l.gamma, inp.nym.a), Mul(l.gamma, inp.nym.b),
                            Mul(l.gamma, l.A), Mul(l.gamma, l.B), l.T1, T)])
      [] OTHER -> Return(s, "Ok", l, [out[s] EXCEPT !.T = T])

\* A prover whose second commitment is on the second base, as in Pi
BCommitB_g2(r, p) == Mul(r, p.g2)

\* prove: b = r * publics.h
BCommitB(r, p) == Mul(r, p.h1)

\* prove: r = random; a = r * publics.g; b = r * publics.h; send("a", a)
BProve_SendA(s) ==
    /\ pc[s] = "bprove.a"
    /\ \E r \in Scalar :
          LET a == Mul(r, loc[s].pub.g1)
              b == BCommitB(r, loc[s].pub)
          IN  /\ Send(s, "a", a)
              /\ Step(s, "bprove.b", [loc[s] EXCEPT !.r = r, !.a = a, !.b = b])
    /\ UNCHANGED <<proto, inp, ro, tamper, io, dropped>>

\* prove: send("b", b)
BProve_SendB(s) ==
    /\ pc[s] = "bprove.b"
    /\ Send(s, "b", loc[s].b)
    /\ Step(s, "bprove.c", loc[s])
    /\ UNCHANGED <<proto, inp, ro, tamper, io, dropped>>

\* prove: c = receive("c"); y = r + c * x
BProve_RecvC(s) ==
    /\ pc[s] = "bprove.c"
    /\ CanReceive(s, "c")
    /\ LET c == Received(s)
           y == Add(loc[s].r, Mul(c, loc[s].x))
       IN  Step(s, "bprove.y", [loc[s] EXCEPT !.c = c, !.y = y])
    /\ Consume(s)
    /\ UNCHANGED <<proto, inp, ro, tamper, io, dropped>>

\* prove: send("y", y); Ok(())
BProve_SendY(s) ==
    /\ pc[s] = "bprove.y"
    /\ Send(s, "y", loc[s].y)
    /\ BProveReturnsOk(s, loc[s])
    /\ UNCHANGED <<proto, inp, ro, tamper, io, dropped>>

\* verify: a = receive("a")
BVerify_RecvA(s) ==
    /\ pc[s] = "bverify.a"
    /\ CanReceive(s, "a")
    /\ Step(s, "bverify.b", [loc[s] EXCEPT !.a = Received(s)])
    /\ Consume(s)
    /\ UNCHANGED <<proto, inp, ro, tamper, io, dropped>>

\* verify: b = receive("b")
BVerify_RecvB(s) ==
    /\ pc[s] = "bverify.b"
    /\ CanReceive(s, "b")
    /\ Step(s, "bverify.c", [loc[s] EXCEPT !.b = Received(s)])
    /\ Consume(s)
    /\ UNCHANGED <<proto, inp, ro, tamper, io, dropped>>

\* verify: a1 = a + alpha * g1 + beta * h1
BlindA(p, a, alpha, beta) == Add(Add(a, Mul(alpha, p.g1)), Mul(beta, p.h1))

\* A verifier that forgets to scale the second commitment by gamma
BlindB_unscaled(p, b, alpha, beta, gamma) ==
    Add(Add(b, Mul(alpha, p.g2)), Mul(beta, p.h2))

\* verify: b1 = gamma * (b + alpha * g2 + beta * h2)
BlindB(p, b, alpha, beta, gamma) ==
    Mul(gamma, Add(Add(b, Mul(alpha, p.g2)), Mul(beta, p.h2)))

\* verify: alpha, beta = random; a1; b1; c_minus_beta = hash(a1, b1);
\* c = c_minus_beta + beta; send("c", c)
BVerify_SendC(s) ==
    /\ pc[s] = "bverify.c"
    /\ \E alpha \in Scalar, beta \in Scalar, h \in Scalar :
          LET l == loc[s]
              a1 == BlindA(l.pub, l.a, alpha, beta)
              b1 == BlindB(l.pub, l.b, alpha, beta, l.gamma)
              c == Add(h, beta)
          IN  /\ Hashes(BlindQuery(a1, b1), h)
              /\ Record(BlindQuery(a1, b1), h)
              /\ Send(s, "c", c)
              /\ Step(s, "bverify.y",
                      [l EXCEPT !.alpha = alpha, !.beta = beta, !.a1 = a1,
                                !.b1 = b1, !.cs = h, !.c = c])
    /\ UNCHANGED <<proto, inp, tamper, io, dropped>>

\* A verifier satisfied with either of the two relations
BAccepts_either(a_ok, b_ok) == a_ok \/ b_ok

\* blind_dlog_eq::verify: if a_ok & b_ok
BAccepts(a_ok, b_ok) == a_ok /\ b_ok

\* verify: y = receive("y"); if a_ok & b_ok { Ok(transcript) } else BadProof
BVerify_RecvY(s) ==
    /\ pc[s] = "bverify.y"
    /\ CanReceive(s, "y")
    /\ LET y == Received(s)
           l == [loc[s] EXCEPT !.y = y]
           a_ok == Mul(y, l.pub.g1) = Add(l.a, Mul(l.c, l.pub.h1))
           b_ok == Mul(y, l.pub.g2) = Add(l.b, Mul(l.c, l.pub.h2))
       IN  IF BAccepts(a_ok, b_ok)
           THEN BVerifyReturnsOk(s, l, Transcript(l.a1, l.b1, l.cs, Add(y, l.alpha)))
           ELSE Return(s, "BadProof", l, out[s])
    /\ Consume(s)
    /\ UNCHANGED <<proto, inp, ro, tamper, io, dropped>>

GammaProver == \/ BProve_SendA("org")
               \/ BProve_SendB("org")
               \/ BProve_RecvC("org")
               \/ BProve_SendY("org")

GammaVerifier == \/ BVerify_RecvA("user")
                 \/ BVerify_RecvB("user")
                 \/ BVerify_SendC("user")
                 \/ BVerify_RecvY("user")

\* A run of Gamma alone: the organization proves a true statement, the user
\* verifies with blinding gamma.
InitGamma ==
    /\ proto = "gamma"
    /\ \E g1 \in Point, g2 \in Point, x \in Scalar, gamma \in Scalar :
          LET p == Publics(g1, Mul(x, g1), g2, Mul(x, g2))
          IN  /\ inp = [Inp0 EXCEPT !.hx = x, !.gamma = gamma]
              /\ loc = [s \in Side |->
                          IF s = "org" THEN [Loc0 EXCEPT !.pub = p, !.x = x]
                                       ELSE [Loc0 EXCEPT !.pub = p, !.gamma = gamma]]
    /\ inbox = [s \in Side |-> <<>>]
    /\ pc = [s \in Side |-> IF s = "org" THEN "bprove.a" ELSE "bverify.a"]
    /\ res = [s \in Side |-> "none"]
    /\ out = [s \in Side |-> Out0]
    /\ ro = {}
    /\ tamper = "none"
    /\ wire = <<>>
    /\ io = [s \in Side |-> "ok"]
    /\ dropped = {}

NextGamma == GammaProver \/ GammaVerifier

SpecGamma == InitGamma /\ [][NextGamma]_vars

-----------------------------------------------------------------------------
(* Claims about Gamma, checked under SpecGamma *)

\* The statement blinded by gamma: (g1, h1, gamma.g2, gamma.h2)
Blinded(p, gamma) == Publics(p.g1, p.h1, Mul(gamma, p.g2), Mul(gamma, p.h2))

\* C7: the transcript (a', b', c*, y + alpha) returned by the Gamma verifier
\* on publics (g1, h1, g2, h2) with blinding gamma satisfies both equations
\* under the blinded publics: (y+alpha).g1 = a' + c*.h1 and
\* (y+alpha).(gamma.g2) = b' + c*.(gamma.h2).
C7_BlindTranscriptEquations ==
    (proto = "gamma" /\ res["user"] = "Ok")
    => LET T == out["user"].T
           l == loc["user"]
           p == Blinded(l.pub, l.gamma)
       IN  /\ T = Transcript(l.a1, l.b1, l.cs, Add(l.y, l.alpha))
           /\ Mul(T.y, p.g1) = Add(T.a, Mul(T.c, p.h1))
           /\ Mul(T.y, p.g2) = Add(T.b, Mul(T.c, p.h2))

\* A transcript was returned for a statement with no trivial part, with
\* nonzero alpha, beta, gamma, c* and nonce.
C7_Witness ==
    /\ proto = "gamma" /\ res["user"] = "Ok"
    /\ LET l == loc["user"]
       IN  /\ l.pub.g1 # Identity /\ l.pub.g2 # Identity /\ l.pub.h1 # Identity
           /\ l.alpha # 0 /\ l.beta # 0 /\ l.gamma # 0 /\ l.cs # 0
           /\ loc["org"].r # 0

-----------------------------------------------------------------------------
(* Credential issuance: nym.rs, Org::issue_credential, User::issue_credential *)

\* Org::issue_credential: A = x2 * nym.b
IssueA(x2, nym) == Mul(x2, nym.b)

\* Org::issue_credential: B = x1 * (nym.a + x2 * nym.b)
IssueB(x1, x2, nym) == Mul(x1, Add(nym.a, Mul(x2, nym.b)))

\* Org::issue_credential: A = ...; B = ...; send("A", A)
Org_issue_SendA ==
    /\ pc["org"] = "oi.A"
    /\ LET A == IssueA(inp.ox2, inp.nym)
           B == IssueB(inp.ox1, inp.ox2, inp.nym)
       IN  /\ Send("org", "A", A)
           /\ Step("org", "oi.B", [loc["org"] EXCEPT !.A = A, !.B = B])
    /\ UNCHANGED <<proto, inp, ro, tamper, io, dropped>>

\* An organization that sends B under the label of A
Org_issue_SendB_as_A ==
    /\ pc["org"] = "oi.B"
    /\ Send("org", "A", loc["org"].B)
    /\ LET l == loc["org"]
       IN  Step("org", "bprove.a",
                [l EXCEPT !.phase = 1, !.pub = OrgIssuePublics(1, l.A, l.B),
                          !.x = inp.ox2])
    /\ UNCHANGED <<proto, inp, ro, tamper, io, dropped>>

\* Org::issue_credential: send("B", B); then blind_dlog_eq::prove on
\* (G, Y2, nym.b, A) with x2
Org_issue_SendB ==
    /\ pc["org"] = "oi.B"
    /\ Send("org", "B", loc["org"].B)
    /\ LET l == loc["org"]
       IN  Step("org", "bprove.a",
                [l EXCEPT !.phase = 1, !.pub = OrgIssuePublics(1, l.A, l.B),
                          !.x = inp.ox2])
    /\ UNCHANGED <<proto, inp, ro, tamper, io, dropped>>

\* User::issue_credential: A = receive("A")
User_issue_RecvA ==
    /\ pc["user"] = "ui.A"
    /\ CanReceive("user", "A")
    /\ Step("user", "ui.B", [loc["user"] EXCEPT !.A = Received("user")])
    /\ Consume("user")
    /\ UNCHANGED <<proto, inp, ro, tamper, io, dropped>>

\* User::issue_credential: B = receive("B"); gamma = random; then
\* blind_dlog_eq::verify on (G, source_key.1, nym.b, A) with gamma
User_issue_RecvB ==
    /\ pc["user"] = "ui.B"
    /\ CanReceive("user", "B")
    /\ \E gamma \in Scalar :
          LET l == [loc["user"] EXCEPT !.B = Received("user"), !.gamma = gamma]
          IN  Step("user", "bverify.a",
                   [l EXCEPT !.phase = 1, !.pub = UserIssuePublics(1, l.A, l.B)])
    /\ Consume("user")
    /\ UNCHANGED <<proto, inp, ro, tamper, io, dropped>>

\* An organization with secret (x1, x2) issues a credential on a nym
\* (a, x.a) of a user with master secret x; the user is given the
\* organization's public key.
IssueStarts(x, a, x1, x2) ==
    /\ proto = "issue"
    /\ inp = [Inp0 EXCEPT !.ux = x, !.hx = x, !.ox1 = x1, !.ox2 = x2,
                          !.nym = Nym(a, Mul(x, a)),
                          !.source_key = OrgPublicKey(x1, x2)]
    /\ pc = [s \in Side |-> IF s = "org" THEN "oi.A" ELSE "ui.A"]
    /\ loc = [s \in Side |-> Loc0]
    /\ inbox = [s \in Side |-> <<>>]
    /\ res = [s \in Side |-> "none"]
    /\ out = [s \in Side |-> Out0]
    /\ ro = {}
    /\ tamper = "none"
    /\ wire = <<>>
    /\ io = [s \in Side |-> "ok"]
    /\ dropped = {}

InitIssue ==
    \E x \in Scalar, a \in Point, x1 \in Scalar, x2 \in Scalar :
       IssueStarts(x, a, x1, x2)

IssueOrg == Org_issue_SendA \/ Org_issue_SendB

IssueUser == User_issue_RecvA \/ User_issue_RecvB

NextIssue == IssueOrg \/ IssueUser \/ GammaProver \/ GammaVerifier

SpecIssue == InitIssue /\ [][NextIssue]_vars

-----------------------------------------------------------------------------
(* Claims about issuance, checked under SpecIssue *)

\* The relations of a credential of the holder of x issued under (x1, x2)
CredRelations(cred, x, x1, x2) ==
    /\ cred.b = Mul(x, cred.a)
    /\ cred.A = Mul(x2, cred.b)
    /\ cred.B = Mul(x1, Add(cred.a, cred.A))

\* C2: after an honest run of User.issue_credential against
\* Org.issue_credential on a nym (a, b) with b = x.a, issued by an org with
\* secret (x1, x2), both roles return Ok and the returned Cred satisfies
\* cred.b = x.cred.a, cred.A = x2.cred.b and cred.B = x1.(cred.a + cred.A),
\* for every choice of r, alpha, beta, gamma.
C2_IssuanceCompletes ==
    (proto = "issue" /\ res["user"] # "none" /\ res["org"] # "none")
    => /\ BothOk
       /\ CredRelations(out["user"].cred, inp.hx, inp.ox1, inp.ox2)

\* What does hold of issuance: a Cred that is returned has the relations.
IssuedCredRelations ==
    (proto = "issue" /\ res["user"] = "Ok")
    => CredRelations(out["user"].cred, inp.hx, inp.ox1, inp.ox2)

-----------------------------------------------------------------------------
(* The non-interactive transcript check: dlog_eq.rs, Transcript::verify *)

\* A check that leaves out the recomputation of the challenge
Transcript_verify_equations_only(T, p, h) ==
    LET a_ok == Mul(T.y, p.g1) = Add(T.a, Mul(T.c, p.h1))
        b_ok == Mul(T.y, p.g2) = Add(T.b, Mul(T.c, p.h2))
    IN  a_ok /\ b_ok

\* A check that tests the first equation twice
Transcript_verify_first_equation(T, p, h) ==
    LET c_ok == T.c = h
        a_ok == Mul(T.y, p.g1) = Add(T.a, Mul(T.c, p.h1))
    IN  c_ok /\ a_ok /\ a_ok

\* Transcript::verify under publics p, h being
\* non_interactive_challenge_for(p, T.a, T.b): Ok iff c_ok && a_ok && b_ok
Transcript_verify(T, p, h) ==
    LET c_ok == T.c = h
        a_ok == Mul(T.y, p.g1) = Add(T.a, Mul(T.c, p.h1))
        b_ok == Mul(T.y, p.g2) = Add(T.b, Mul(T.c, p.h2))
    IN  c_ok /\ a_ok /\ b_ok

\* Transcript::verify applied to the transcript and publics in loc["org"]
NI_Verify ==
    /\ pc["org"] = "ni.verify"
    /\ LET l == loc["org"]
           q == NIQuery(l.pub, l.T1.a, l.T1.b)
       IN  \E h \in Scalar :
              /\ Hashes(q, h)
              /\ Record(q, h)
              /\ res' = [res EXCEPT !["org"] =
                           IF Transcript_verify(l.T1, l.pub, h)
                           THEN "Ok" ELSE "BadProof"]
    /\ pc' = [pc EXCEPT !["org"] = "ni.verified"]
    /\ UNCHANGED <<proto, inp, inbox, loc, out, tamper, wire, io, dropped>>

\* One field of a transcript that passed is replaced by a different value,
\* and the transcript is verified again.
NI_Mutate ==
    /\ pc["org"] = "ni.verified" /\ res["org"] = "Ok" /\ tamper = "none"
    /\ \E f \in {"a", "b", "c", "y"}, v \in 0 .. (Q - 1) :
          LET T == loc["org"].T1
          IN  /\ v # T[f]
              /\ loc' = [loc EXCEPT !["org"].T1 = [T EXCEPT ![f] = v]]
              /\ tamper' = f
    /\ pc' = [pc EXCEPT !["org"] = "ni.verify"]
    /\ res' = [res EXCEPT !["org"] = "none"]
    /\ out' = [out EXCEPT !["org"].T = loc["org"].T1]
    /\ UNCHANGED <<proto, inp, inbox, ro, wire, io, dropped>>

\* Transcript::verify on any transcript under any publics
InitNI ==
    /\ proto = "ni"
    /\ \E p \in PublicsSet, T \in TranscriptSet :
          loc = [s \in Side |->
                    IF s = "org" THEN [Loc0 EXCEPT !.pub = p, !.T1 = T] ELSE Loc0]
    /\ inp = Inp0
    /\ inbox = [s \in Side |-> <<>>]
    /\ pc = [s \in Side |-> IF s = "org" THEN "ni.verify" ELSE "done"]
    /\ res = [s \in Side |-> "none"]
    /\ out = [s \in Side |-> Out0]
    /\ ro = {}
    /\ tamper = "none"
    /\ wire = <<>>
    /\ io = [s \in Side |-> "ok"]
    /\ dropped = {}

NextNI == NI_Verify \/ NI_Mutate

SpecNI == InitNI /\ [][NextNI]_vars

-----------------------------------------------------------------------------
(* Claims about Transcript::verify, checked under SpecNI *)

\* The challenge recomputed for the transcript in loc["org"]
Recomputed ==
    LET l == loc["org"]
    IN  (CHOOSE e \in ro : e[1] = NIQuery(l.pub, l.T1.a, l.T1.b))[2]

NIVerdict == proto = "ni" /\ res["org"] # "none"

\* Ok exactly when c is the recomputed challenge and both equations hold
NIOkExactlyWhen ==
    NIVerdict =>
       LET l == loc["org"]
       IN  (res["org"] = "Ok") <=>
              /\ l.T1.c = Recomputed
              /\ Mul(l.T1.y, l.pub.g1) = Add(l.T1.a, Mul(l.T1.c, l.pub.h1))
              /\ Mul(l.T1.y, l.pub.g2) = Add(l.T1.b, Mul(l.T1.c, l.pub.h2))

\* C8 as stated: Transcript::verify returns Ok under publics P exactly when
\* the transcript's c equals the challenge recomputed from (P, a, b) and both
\* equations hold; and for a transcript that passes under P, replacing any
\* one of a, b, c, y by a different value makes verify return BadProof.
C8_AnyFieldMutationRejected ==
    /\ NIOkExactlyWhen
    /\ (NIVerdict /\ tamper # "none") => res["org"] = "BadProof"

\* C8 as amended: the same, except that a replaced y is only claimed to be
\* rejected when g1 or g2 is not the identity.
C8_FieldMutationRejected ==
    /\ NIOkExactlyWhen
    /\ (/\ NIVerdict
        /\ \/ tamper \in {"a", "b", "c"}
           \/ tamper = "y" /\ (\/ loc["org"].pub.g1 # Identity
                               \/ loc["org"].pub.g2 # Identity))
       => res["org"] = "BadProof"

\* A transcript that passed with a, c, y all nonzero had its a replaced, met
\* a recomputed challenge equal to its c, and was rejected.
C8_Witness ==
    /\ NIVerdict /\ tamper = "a" /\ res["org"] = "BadProof"
    /\ loc["org"].T1.c = Recomputed
    /\ out["org"].T.a # Identity /\ out["org"].T.c # 0 /\ out["org"].T.y # 0
    /\ loc["org"].pub.g1 # Identity /\ loc["org"].pub.h2 # Identity

-----------------------------------------------------------------------------
(* Credential transfer: nym.rs, Org::transfer_credential,
   User::transfer_credential *)

\* The transcripts blind_dlog_eq::verify can return to a verifier with
\* blinding gamma when blind_dlog_eq::prove is run on publics p with
\* witness x: every nonce r, every alpha and beta, every hash value h.
GammaTranscripts(p, x, gamma) ==
    {Transcript(BlindA(p, Mul(r, p.g1), ab[1], ab[2]),
                BlindB(p, BCommitB(r, p), ab[1], ab[2], gamma),
                h,
                Add(Response(r, Add(h, ab[2]), x), ab[1])) :
        <<r, ab, h>> \in
           {t \in Scalar \X (Scalar \X Scalar) \X Scalar :
               LET y == Response(t[1], Add(t[3], t[2][2]), x)
                   c == Add(t[3], t[2][2])
               IN  /\ Mul(y, p.g1) = Add(Mul(t[1], p.g1), Mul(c, p.h1))
                   /\ Mul(y, p.g2) = Add(BCommitB(t[1], p), Mul(c, p.h2))}}

\* The credentials User::issue_credential can return on nym when the
\* organization with secret (x1, x2) runs Org::issue_credential on it
IssuedCreds(nym, x1, x2) ==
    LET A == IssueA(x2, nym)
        B == IssueB(x1, x2, nym)
        p1 == Publics(RISTRETTO_BASEPOINT_POINT, to_public(x2), nym.b, A)
        p2 == Publics(RISTRETTO_BASEPOINT_POINT, to_public(x1), Add(nym.a, A), B)
    IN  UNION {
          {Cred(Mul(gamma, nym.a), Mul(gamma, nym.b), Mul(gamma, A),
                Mul(gamma, B), T[1], T[2]) :
              T \in {U \in GammaTranscripts(p1, x2, gamma)
                             \X GammaTranscripts(p2, x1, gamma) :
                        (U[1].a = U[2].a /\ U[1].b = U[2].b)
                           => U[1].c = U[2].c}} :
          gamma \in Scalar}

\* The hash queries answered while the credential was issued
IssuanceQueries(cred) ==
    {<<BlindQuery(cred.T1.a, cred.T1.b), cred.T1.c>>,
     <<BlindQuery(cred.T2.a, cred.T2.b), cred.T2.c>>}

\* The first stored transcript is checked under (G, Y2, cred.b, cred.A)
TransferPublics1(cred, source_key) ==
    Publics(RISTRETTO_BASEPOINT_POINT, source_key.key2, cred.b, cred.A)

\* The second stored transcript is checked under (G, Y1, cred.a + cred.A, cred.B)
TransferPublics2(cred, source_key) ==
    Publics(RISTRETTO_BASEPOINT_POINT, source_key.key1,
            Add(cred.a, cred.A), cred.B)

\* The statement of the interactive proof: (nym.a, nym.b, cred.a, cred.b)
TransferPublics(nym, cred) == Publics(nym.a, nym.b, cred.a, cred.b)

\* Org::transfer_credential: cred.T1.verify(..)?
Org_transfer_T1 ==
    /\ pc["org"] = "ot.T1"
    /\ LET p == TransferPublics1(inp.cred, inp.source_key)
           q == NIQuery(p, inp.cred.T1.a, inp.cred.T1.b)
       IN  \E h \in Scalar :
              /\ Hashes(q, h)
              /\ Record(q, h)
              /\ IF Transcript_verify(inp.cred.T1, p, h)
                 THEN Step("org", "ot.T2", [loc["org"] EXCEPT !.phase = 1])
                 ELSE Return("org", "BadProof", loc["org"], out["org"])
    /\ UNCHANGED <<proto, inp, inbox, tamper, wire, io, dropped>>

\* An organization that goes on to the interactive proof whatever the check
\* of T2 says
Org_transfer_T2_unchecked ==
    /\ pc["org"] = "ot.T2"
    /\ LET p == TransferPublics2(inp.cred, inp.source_key)
           q == NIQuery(p, inp.cred.T2.a, inp.cred.T2.b)
       IN  \E h \in Scalar :
              /\ Hashes(q, h)
              /\ Record(q, h)
              /\ Step("org", "verify.a",
                      [loc["org"] EXCEPT !.phase = 2,
                          !.pub = TransferPublics(inp.nym, inp.cred)])
    /\ UNCHANGED <<proto, inp, inbox, tamper, wire, io, dropped>>

\* Org::transfer_credential: cred.T2.verify(..)?; then dlog_eq::verify
Org_transfer_T2 ==
    /\ pc["org"] = "ot.T2"
    /\ LET p == TransferPublics2(inp.cred, inp.source_key)
           q == NIQuery(p, inp.cred.T2.a, inp.cred.T2.b)
       IN  \E h \in Scalar :
              /\ Hashes(q, h)
              /\ Record(q, h)
              /\ IF Transcript_verify(inp.cred.T2, p, h)
                 THEN Step("org", "verify.a",
                           [loc["org"] EXCEPT !.phase = 2,
                               !.pub = TransferPublics(inp.nym, inp.cred)])
                 ELSE Return("org", "BadProof", loc["org"], out["org"])
    /\ UNCHANGED <<proto, inp, inbox, tamper, wire, io, dropped>>

TransferOrg == Org_transfer_T1 \/ Org_transfer_T2

\* A transfer of cred on nym, org-side, against a user whose key is ux and
\* who was given ucred
TransferStarts(ux, nym, cred, ucred) ==
    /\ loc = [s \in Side |->
                IF s = "user"
                THEN [Loc0 EXCEPT !.pub = TransferPublics(nym, ucred), !.x = ux]
                ELSE Loc0]
    /\ pc = [s \in Side |-> IF s = "user" THEN "prove.a" ELSE "ot.T1"]
    /\ inbox = [s \in Side |-> <<>>]
    /\ res = [s \in Side |-> "none"]
    /\ out = [s \in Side |-> Out0]
    /\ ro = IssuanceQueries(cred)
    /\ tamper = "none"
    /\ wire = <<>>
    /\ io = [s \in Side |-> "ok"]
    /\ dropped = {}

\* The holder of master secret x was issued a credential by the source
\* organization (x1, x2) on a nym (s, x.s) and holds the nym (a, x.a) with
\* the destination organization.  A user with key ux shows the credential.
ShowStarts(x, x1, x2, a, sa, ux) ==
    /\ proto = "transfer"
    /\ \E cred \in IssuedCreds(Nym(sa, Mul(x, sa)), x1, x2) :
          /\ inp = [Inp0 EXCEPT !.hx = x, !.ux = ux, !.ox1 = x1, !.ox2 = x2,
                                !.nym = Nym(a, Mul(x, a)),
                                !.cred = cred, !.issued = cred,
                                !.source_key = OrgPublicKey(x1, x2)]
          /\ TransferStarts(ux, Nym(a, Mul(x, a)), cred, cred)

InitTransfer ==
    \E x \in 1 .. (Q - 1), x1 \in 1 .. (Q - 1), x2 \in 1 .. (Q - 1),
       a \in Point, sa \in Point, ux \in Scalar :
       ShowStarts(x, x1, x2, a, sa, ux)

NextTransfer == TransferOrg \/ PiProver \/ PiVerifier

SpecTransfer == InitTransfer /\ [][NextTransfer]_vars

-----------------------------------------------------------------------------
(* Claims about transfer, checked under SpecTransfer *)

OrgVerdict == proto = "transfer" /\ res["org"] # "none"

\* The organization got as far as the interactive proof
RanPi == loc["org"].phase = 2

\* C3: a Cred produced by an honest issuance with org1 is accepted in
\* transfer: for any nym (a, b) of the same user, User.transfer_credential
\* against Org.transfer_credential with source_key = org1's public key
\* returns Ok on both sides (T1 and T2 pass Transcript::verify and the
\* interactive run is accepted).
C3_TransferCompletes ==
    (proto = "transfer" /\ inp.ux = inp.hx)
    => /\ res["org"] \in {"none", "Ok"}
       /\ res["user"] \in {"none", "Ok"}

\* C4 as stated: if the user-side run of Pi is executed with a scalar x'
\* different from the master secret x underlying the destination nym and the
\* credential, Org.transfer_credential returns BadProof, for every nonce r
\* and every challenge c.
C4_WrongSecretRejected ==
    (OrgVerdict /\ inp.ux # inp.hx) => res["org"] = "BadProof"

\* C4 as amended: the same for every nonce r and every challenge c # 0,
\* provided nym.a or cred.a is not the identity.
C4_WrongSecretRejectedNonzero ==
    (/\ OrgVerdict /\ inp.ux # inp.hx
     /\ inp.nym.a # Identity \/ inp.cred.a # Identity
     /\ RanPi => loc["org"].c # 0)
    => res["org"] = "BadProof"

\* Both stored transcripts passed, the user answered a nonzero challenge
\* with another secret, and the organization returned BadProof.
C4_Witness ==
    /\ OrgVerdict /\ inp.ux # inp.hx /\ RanPi
    /\ loc["org"].c # 0 /\ loc["user"].r # 0
    /\ inp.nym.a # Identity /\ inp.cred.a # Identity
    /\ res["org"] = "BadProof"

-----------------------------------------------------------------------------
(* Transfer of a credential one group element of which was replaced *)

\* How far a replaced group element is moved from the issued one
MaxShift == 1

\* As in test::cred_transfer the credential is shown on the nym it was
\* issued on, by its holder; one of a, b, A, B has been replaced.
InitShow ==
    /\ proto = "transfer"
    /\ \E x \in 1 .. (Q - 1), x1 \in 1 .. (Q - 1), x2 \in 1 .. (Q - 1),
          a \in Point, f \in {"a", "b", "A", "B"}, d \in 1 .. MaxShift :
          \E issued \in IssuedCreds(Nym(a, Mul(x, a)), x1, x2) :
             LET cred == [issued EXCEPT ![f] = Add(@, d)]
             IN  /\ d < Q
                 /\ inp = [Inp0 EXCEPT !.hx = x, !.ux = x, !.ox1 = x1,
                                       !.ox2 = x2, !.nym = Nym(a, Mul(x, a)),
                                       !.cred = cred, !.issued = issued,
                                       !.source_key = OrgPublicKey(x1, x2)]
                 /\ TransferStarts(x, Nym(a, Mul(x, a)), cred, cred)

SpecShow == InitShow /\ [][NextTransfer]_vars

\* The group element in which the shown credential differs from the issued
Replaced(f) == inp.cred[f] # inp.issued[f]

\* C9 as stated: Org.transfer_credential returns BadProof whenever the
\* presented Cred differs from an honestly issued one in a single group
\* element (a, b, A or B replaced by a different point), the source
\* organization's public key being unchanged.
C9_ReplacedElementRejected ==
    (OrgVerdict /\ inp.cred # inp.issued) => res["org"] = "BadProof"

\* C9 as amended: the same, provided the scalar of the stored transcripts
\* that multiplies the replaced element is not zero: T2.y for a, T1.y for b,
\* T1.c or T2.y for A, T2.c for B.
C9_ReplacedElementRejectedNonzero ==
    (/\ OrgVerdict
     /\ \/ Replaced("a") /\ inp.cred.T2.y # 0
        \/ Replaced("b") /\ inp.cred.T1.y # 0
        \/ Replaced("A") /\ (inp.cred.T1.c # 0 \/ inp.cred.T2.y # 0)
        \/ Replaced("B") /\ inp.cred.T2.c # 0)
    => res["org"] = "BadProof"

\* A credential whose A was replaced passed the check of T1, the recomputed
\* challenge being its c = 0, and was rejected on T2.
C9_Witness ==
    /\ OrgVerdict /\ Replaced("A") /\ res["org"] = "BadProof"
    /\ loc["org"].phase = 1
    /\ inp.cred.T2.y # 0
    /\ <<NIQuery(TransferPublics2(inp.cred, inp.source_key),
                 inp.cred.T2.a, inp.cred.T2.b), inp.cred.T2.c>> \in ro

-----------------------------------------------------------------------------
(* More claims about pseudonym generation, checked under SpecNym *)

\* C12: every Nym returned by Org.generate_nym or Org.generate_nym_as_ca has
\* a # identity, for every seed a~ received from the user and every scalar r
\* the organization samples.
C12_NymNotIdentity ==
    (proto = "nymgen" /\ res["org"] = "Ok")
    => out["org"].nym.a # Identity

-----------------------------------------------------------------------------
(* Authentication: nym.rs, Org::authenticate_nym, User::authenticate_nym *)

\* An organization that takes the points of the nym in the other order
Org_authenticate_publics_swapped(nym) == Publics(nym.b, nym.a, nym.b, nym.a)

\* Org::authenticate_nym: Publics { g1: nym.a, h1: nym.b, g2: nym.a, h2: nym.b }
Org_authenticate_publics(nym) == Publics(nym.a, nym.b, nym.a, nym.b)

\* User::authenticate_nym: Publics { g1: nym.a, h1: nym.b, g2: nym.a, h2: nym.b }
User_authenticate_publics(nym) == Publics(nym.a, nym.b, nym.a, nym.b)

\* The user with master secret x authenticates as the holder of the nym
\* (a, x.a): dlog_eq::prove against dlog_eq::verify.
InitAuth ==
    /\ proto = "auth"
    /\ \E x \in Scalar, a \in Point :
          LET nym == Nym(a, Mul(x, a))
          IN  /\ inp = [Inp0 EXCEPT !.ux = x, !.hx = x, !.nym = nym]
              /\ loc = [s \in Side |->
                          IF s = "user"
                          THEN [Loc0 EXCEPT !.pub = User_authenticate_publics(nym),
                                            !.x = x]
                          ELSE [Loc0 EXCEPT !.pub = Org_authenticate_publics(nym)]]
    /\ inbox = [s \in Side |-> <<>>]
    /\ pc = [s \in Side |-> IF s = "user" THEN "prove.a" ELSE "verify.a"]
    /\ res = [s \in Side |-> "none"]
    /\ out = [s \in Side |-> Out0]
    /\ ro = {}
    /\ tamper = "none"
    /\ wire = <<>>
    /\ io = [s \in Side |-> "ok"]
    /\ dropped = {}

NextAuth == PiProver \/ PiVerifier

SpecAuth == InitAuth /\ [][NextAuth]_vars

\* C11: for every nym (a, b) with b = x.a held by the user with master
\* secret x, an honest run of User.authenticate_nym against
\* Org.authenticate_nym (Pi with publics (a, b, a, b)) returns Ok on both
\* sides.
C11_AuthRoundTrip ==
    proto = "auth"
    => /\ loc["org"].pub = Publics(inp.nym.a, inp.nym.b, inp.nym.a, inp.nym.b)
       /\ \A s \in Side : res[s] \in {"none", "Ok"}

\* An authentication on a nym with a # identity, with x > 1 and a nonzero
\* nonce and challenge, has ended with Ok on both sides.
C11_Witness ==
    /\ proto = "auth" /\ BothOk
    /\ inp.nym.a # Identity /\ inp.ux > 1
    /\ loc["user"].r # 0 /\ loc["org"].c # 0

-----------------------------------------------------------------------------
(* Failures of the channel: transport.rs, LocalTransport, whose send and
   receive return Result<_, io::Error>, and nym.rs, test::TestTransport *)

\* The labels a message is given in place of its own
WrongLabels == {"b", "y"}

\* The label of the receive at each position of the code, "" elsewhere
Awaits(p) ==
    CASE p \in {"ogn.a~", "ca.a~"} -> "a~"
      [] p \in {"ogn.b~", "ca.b~"} -> "b~"
      [] p \in {"gn.a", "verify.a", "bverify.a"} -> "a"
      [] p \in {"ogn.b", "ca.b", "verify.b", "bverify.b"} -> "b"
      [] p \in {"prove.c", "bprove.c"} -> "c"
      [] p \in {"verify.y", "bverify.y"} -> "y"
      [] p = "ui.A" -> "A"
      [] p = "ui.B" -> "B"
      [] OTHER -> ""

Receiving(p) == Awaits(p) # ""

\* The positions of the code that are a send
Sending(p) ==
    p \in {"gn.start", "gn.b~", "gn.b", "ogn.a", "ca.a", "oi.A", "oi.B",
           "prove.a", "prove.b", "prove.y", "verify.c",
           "bprove.a", "bprove.b", "bprove.y", "bverify.c"}

\* A role that tries the failed operation again
Propagate_retry(s) == Step(s, pc[s], loc[s])

\* `.await?` on Err(e): return Err(Error::Transport(e))
Propagate(s) == Return(s, "Transport", loc[s], out[s])

\* A send or receive of role s returns Err(io::Error)
Channel_fails(s) ==
    /\ res[s] = "none"
    /\ Sending(pc[s]) \/ Receiving(pc[s])
    /\ io' = [io EXCEPT ![s] = "error"]
    /\ Propagate(s)
    /\ UNCHANGED <<proto, inp, inbox, ro, tamper, wire, dropped>>

\* The message next in line for role s arrives under another label
Mislabel(s) ==
    /\ tamper = "none"
    /\ inbox[s] # <<>>
    /\ res["user"] = "none" /\ res["org"] = "none"
    /\ \E l \in WrongLabels :
          /\ l # Head(inbox[s]).label
          /\ inbox' = [inbox EXCEPT ![s] =
                          <<Msg(l, Head(@).value)>> \o Tail(@)]
    /\ tamper' = "label"
    /\ UNCHANGED <<proto, inp, pc, loc, res, out, ro, wire, io, dropped>>

\* TestTransport::receive: assert_eq!(recv_label.as_bytes(), label, ..)
\* panics on a message that bears another label
Receive_mismatch(s) ==
    /\ res[s] = "none"
    /\ Receiving(pc[s])
    /\ inbox[s] # <<>>
    /\ Head(inbox[s]).label # Awaits(pc[s])
    /\ io' = [io EXCEPT ![s] = "mismatch"]
    /\ Return(s, "panic", loc[s], out[s])
    /\ Consume(s)
    /\ UNCHANGED <<proto, inp, ro, tamper, dropped>>

\* The caller drops the task of role s, if it still runs, and its end of
\* the channel
Drop(s) ==
    /\ s \notin dropped
    /\ dropped' = dropped \cup {s}
    /\ IF res[s] = "none"
       THEN Return(s, "cancelled", loc[s], out[s])
       ELSE UNCHANGED <<pc, loc, res, out>>
    /\ UNCHANGED <<proto, inp, inbox, ro, tamper, wire, io>>

\* TestTransport::receive: self.1.next().await.expect(..) panics when the
\* queue is empty and the sending end was dropped
Receive_eof(s) ==
    /\ res[s] = "none"
    /\ Receiving(pc[s])
    /\ inbox[s] = <<>>
    /\ Peer(s) \in dropped
    /\ io' = [io EXCEPT ![s] = "eof"]
    /\ Return(s, "panic", loc[s], out[s])
    /\ UNCHANGED <<proto, inp, inbox, ro, tamper, wire, dropped>>

\* TestTransport::send: self.0.send(..).await.expect(..) panics when the
\* receiving end was dropped
Send_closed(s) ==
    /\ res[s] = "none"
    /\ Sending(pc[s])
    /\ Peer(s) \in dropped
    /\ io' = [io EXCEPT ![s] = "closed"]
    /\ Return(s, "panic", loc[s], out[s])
    /\ UNCHANGED <<proto, inp, inbox, ro, tamper, wire, dropped>>

\* The largest organization key of the issuances and transfers run over a
\* failing channel; the user's secret is 1 and the nyms are (G, G).
MaxFaultKey == 1

FaultKeys == 1 .. MaxFaultKey

\* Every protocol pair, run over a channel that may fail
InitFault ==
    \/ InitNym
    \/ InitAuth
    \/ \E x1 \in FaultKeys, x2 \in FaultKeys :
          /\ x1 < Q /\ x2 < Q
          /\ \/ IssueStarts(1, RISTRETTO_BASEPOINT_POINT, x1, x2)
             \/ /\ x1 = x2
                /\ ShowStarts(1, x1, x2, RISTRETTO_BASEPOINT_POINT,
                              RISTRETTO_BASEPOINT_POINT, 1)

RoleSteps == \/ NymUser \/ NymOrg \/ PiProver \/ PiVerifier
             \/ IssueOrg \/ IssueUser \/ GammaProver \/ GammaVerifier
             \/ TransferOrg

ChannelFaults ==
    \E s \in Side : \/ Channel_fails(s)
                    \/ Mislabel(s)
                    \/ Receive_mismatch(s)

NextFault == RoleSteps \/ ChannelFaults

SpecFault == InitFault /\ [][NextFault]_vars

-----------------------------------------------------------------------------
(* A role stops before the other: pseudonym generation and issuance over a
   TestTransport whose ends the caller may drop *)

InitDrop ==
    \/ InitNym
    \/ \E x1 \in FaultKeys, x2 \in FaultKeys :
          /\ x1 < Q /\ x2 < Q
          /\ IssueStarts(1, RISTRETTO_BASEPOINT_POINT, x1, x2)

UserSteps == NymUser \/ PiProver \/ IssueUser \/ GammaVerifier
             \/ Receive_eof("user") \/ Send_closed("user")

OrgSteps == NymOrg \/ PiVerifier \/ IssueOrg \/ GammaProver
            \/ Receive_eof("org") \/ Send_closed("org")

NextDrop == UserSteps \/ OrgSteps \/ (\E s \in Side : Drop(s))

SpecDrop == InitDrop /\ [][NextDrop]_vars

\* A task that can take a step is polled: block_on(try_join(..)) runs both
\* roles until each has returned or waits in receive.
FairDrop == SpecDrop /\ WF_vars(UserSteps) /\ WF_vars(OrgSteps)

-----------------------------------------------------------------------------
(* Claims about failures, checked under SpecFault and FairDrop *)

\* Role s has sent a message in this step
Sent(s) == wire' # wire /\ wire'[Len(wire')][1] = s

\* Role s has taken a message from its queue in this step
Took(s) == Len(inbox'[s]) < Len(inbox[s])

\* The two equations fail on what the verifier holds
EquationsFail(l) ==
    ~(A_ok(l.pub, l.a, l.c, l.y) /\ B_ok(l.pub, l.b, l.c, l.y))

\* C13: errors are never recovered locally.  In every role of every
\* protocol, as soon as a send or receive fails or a verification check
\* fails, the role performs no further send or receive and returns that
\* error to its caller, a channel failure as Error::Transport and a failed
\* check as BadProof; no step is retried.
C13_ErrorsPropagate ==
    [][\A s \in Side :
          /\ (io[s] = "ok" /\ io'[s] = "error")
             => (res'[s] = "Transport" /\ ~Sent(s) /\ ~Took(s))
          /\ (res[s] = "none" /\ res'[s] = "Transport") => io'[s] = "error"
          /\ (pc[s] \in {"verify.y", "bverify.y"} /\ Took(s) /\ io'[s] = "ok"
              /\ EquationsFail([loc[s] EXCEPT !.y = Received(s)]))
             => (res'[s] = "BadProof" /\ ~Sent(s))
          /\ (pc[s] = "ca.b~" /\ Took(s) /\ io'[s] = "ok"
              /\ ~CaAdmits(loc[s].na_, Received(s), inp.user_key))
             => (res'[s] = "BadProof" /\ ~Sent(s))
          /\ (pc[s] \in {"ot.T1", "ot.T2"} /\ pc'[s] = "done")
             => (res'[s] \in {"BadProof", "Transport"} /\ ~Sent(s))
          /\ res[s] # "none"
             => (res'[s] = res[s] /\ pc'[s] = pc[s] /\ ~Sent(s) /\ ~Took(s))
      ]_vars

\* In the second proof of an issuance a receive of the user failed and the
\* user returned the transport error; the organization went on to the end
\* and its last message stays in the queue.
C13_Witness ==
    /\ io["user"] = "error" /\ res["user"] = "Transport"
    /\ proto = "issue" /\ loc["user"].phase = 2
    /\ res["org"] = "Ok" /\ inbox["user"] # <<>>

\* C14: label mismatch is a hard failure.  When a role executes receive(L)
\* and the next message on that direction bears a label different from L,
\* the role returns an error to its caller, no value is delivered to the
\* protocol logic and the role sends no further message.
C14_LabelMismatchRejects ==
    [][\A s \in Side :
          /\ (/\ res[s] = "none" /\ Receiving(pc[s]) /\ Took(s)
              /\ Head(inbox[s]).label # Awaits(pc[s]))
             => /\ res'[s] \in {"BadProof", "Transport"}
                /\ loc'[s] = loc[s]
                /\ ~Sent(s)
          /\ io[s] = "mismatch"
             => (res'[s] = res[s] /\ ~Sent(s) /\ ~Took(s))
      ]_vars

\* C19: no role blocks forever after its peer stops.  If one role has
\* terminated before completion while the other is waiting in receive, the
\* waiting role eventually terminates with a transport error.
C19_NoRoleBlocksForever ==
    \A s \in Side :
       [](( /\ res[Peer(s)] \notin {"none", "Ok"}
            /\ res[s] = "none" /\ Receiving(pc[s]) /\ inbox[s] = <<>>)
          => <>(res[s] = "Transport"))

-----------------------------------------------------------------------------
(* The order of the labels on the wire, in pseudonym generation and in
   issuance *)

\* Every pseudonym generation, and the issuances on the nym (G, G) of the
\* user with secret 1 by the organizations with nonzero keys
InitWire ==
    \/ InitNym
    \/ \E x1 \in 1 .. (Q - 1), x2 \in 1 .. (Q - 1) :
          IssueStarts(1, RISTRETTO_BASEPOINT_POINT, x1, x2)

NextWire == NextNym \/ NextIssue

SpecWire == InitWire /\ [][NextWire]_vars

\* Pseudonym generation: a~, b~, a, b, then Pi's a, b, c, y
NymWire ==
    <<  <<"user", "a~">>, <<"user", "b~">>, <<"org", "a">>, <<"user", "b">>,
        <<"user", "a">>, <<"user", "b">>, <<"org", "c">>, <<"user", "y">>  >>

\* Issuance: A, B, then Gamma's a, b, c, y twice
IssueWire ==
    <<  <<"org", "A">>, <<"org", "B">>,
        <<"org", "a">>, <<"org", "b">>, <<"user", "c">>, <<"org", "y">>,
        <<"org", "a">>, <<"org", "b">>, <<"user", "c">>, <<"org", "y">>  >>

IsPrefix(s, t) ==
    /\ Len(s) <= Len(t)
    /\ \A i \in 1 .. Len(s) : s[i] = t[i]

\* The statement of the Gamma exchange a role of an issuance is in
IssueStatement(s) ==
    LET Y == OrgPublicKey(inp.ox1, inp.ox2)
    IN  (loc[s].phase = 1
           => loc[s].pub = Publics(RISTRETTO_BASEPOINT_POINT, Y.key2,
                                   inp.nym.b, IssueA(inp.ox2, inp.nym)))
        /\ (loc[s].phase = 2
              => loc[s].pub = Publics(RISTRETTO_BASEPOINT_POINT, Y.key1,
                                      Add(inp.nym.a, IssueA(inp.ox2, inp.nym)),
                                      IssueB(inp.ox1, inp.ox2, inp.nym)))

\* C15: in an honest run of each protocol pair the labels appear on the
\* wire in exactly the specified order, and every receive(L) finds a
\* head-of-queue message labelled L: nym generation is a~, b~ (user to org),
\* a (org to user), b (user to org), then Pi's a, b (prover to verifier),
\* c (verifier to prover), y (prover to verifier); issuance is A, B (org to
\* user) followed by two complete Gamma exchanges a, b, c, y, the first for
\* the statement (G, Y2, b, A) and the second for (G, Y1, a + A, B).
C15_LabelOrder ==
    /\ proto = "nymgen"
       => (IsPrefix(wire, NymWire) /\ (BothOk => wire = NymWire))
    /\ proto = "issue"
       => /\ IsPrefix(wire, IssueWire)
          /\ res["org"] = "Ok" => wire = IssueWire
          /\ \A s \in Side : IssueStatement(s)
    /\ \A s \in Side :
          (Receiving(pc[s]) /\ inbox[s] # <<>>)
          => Head(inbox[s]).label = Awaits(pc[s])

\* An issuance has run to the end, both roles returning Ok, with nonzero
\* nonces in both exchanges.
C15_Witness ==
    /\ proto = "issue" /\ BothOk /\ wire = IssueWire
    /\ inp.nym.a # Identity /\ loc["org"].r # 0 /\ loc["user"].T1.y # 0

-----------------------------------------------------------------------------
(* Signing with a nym: nym.rs, UserSecretKey::sign, Nym::verify.  The
   signature is the Schnorr signature of schnorrkel with the base point G
   replaced by a base given by the caller. *)

Signature(R, s) == [R |-> R, s |-> s]

\* The challenge of a signature: the caller's transcript, to which the
\* public key, the base and the commitment R are committed
SigQuery(t, public, base, R) ==
    <<t, <<"sign:pk", public>>, <<"sign:base", base>>, <<"sign:R", R>>,
      "sign:c">>

\* sign_with_base, r being the nonce and k the challenge: R = r * base,
\* s = k * key + r
sign_with_base(key, r, k, base) ==
    Signature(Mul(r, base), Add(Mul(k, key), r))

\* verify_with_base, k being the challenge: s * base == R + k * public
verify_with_base(public, sig, k, base) ==
    Mul(sig.s, base) = Add(sig.R, Mul(k, public))

\* A verification that takes the points of the nym in the other order
Nym_verify_swapped(nym, sig, k) ==
    IF verify_with_base(nym.a, sig, k, nym.b) THEN "Ok" ELSE "BadSignature"

\* Nym::verify: PublicKey::from_point(self.b).verify_with_base(t, sig,
\* &self.a).map_err(|_| Error::BadSignature)
Nym_verify(nym, sig, k) ==
    IF verify_with_base(nym.b, sig, k, nym.a) THEN "Ok" ELSE "BadSignature"

\* UserSecretKey::sign: self.key.sign_with_base(t, from_point(nym.b), &nym.a)
UserSecretKey_sign ==
    /\ pc["user"] = "sign"
    /\ \E r \in Scalar, k \in Scalar :
          LET nym == inp.sign_nym
              q == SigQuery(inp.sign_t, nym.b, nym.a, Mul(r, nym.a))
              sig == sign_with_base(inp.ux, r, k, nym.a)
          IN  /\ Hashes(q, k)
              /\ Record(q, k)
              /\ Return("user", "Ok",
                        [loc["user"] EXCEPT !.r = r, !.c = k, !.a = sig.R,
                                            !.y = sig.s],
                        out["user"])
    /\ UNCHANGED <<proto, inp, inbox, tamper, wire, io, dropped>>

\* Nym::verify on the signature the user made
Nym_verify_call ==
    /\ pc["org"] = "verify" /\ res["user"] = "Ok"
    /\ \E k \in Scalar :
          LET nym == inp.nym
              sig == Signature(loc["user"].a, loc["user"].y)
              q == SigQuery(inp.verify_t, nym.b, nym.a, sig.R)
          IN  /\ Hashes(q, k)
              /\ Record(q, k)
              /\ Return("org", Nym_verify(nym, sig, k),
                        [loc["org"] EXCEPT !.c = k, !.a = sig.R, !.y = sig.s],
                        out["org"])
    /\ UNCHANGED <<proto, inp, inbox, tamper, wire, io, dropped>>

SignTranscripts == {"test-transcript", "bad-transcript"}

\* As in test::sign_with_nym: the user with secret x signs a transcript
\* with the nym (a, x.a) or with Nym { a: a', ..nym }; the signature is
\* verified under (a, x.a) and a transcript.
InitSign ==
    /\ proto = "sign"
    /\ \E x \in Scalar, a \in Point, sa \in Point,
          st \in SignTranscripts, vt \in SignTranscripts :
          inp = [Inp0 EXCEPT !.ux = x, !.hx = x, !.nym = Nym(a, Mul(x, a)),
                             !.sign_nym = Nym(sa, Mul(x, a)),
                             !.sign_t = st, !.verify_t = vt]
    /\ pc = [s \in Side |-> IF s = "user" THEN "sign" ELSE "verify"]
    /\ loc = [s \in Side |-> Loc0]
    /\ inbox = [s \in Side |-> <<>>]
    /\ res = [s \in Side |-> "none"]
    /\ out = [s \in Side |-> Out0]
    /\ ro = {}
    /\ tamper = "none"
    /\ wire = <<>>
    /\ io = [s \in Side |-> "ok"]
    /\ dropped = {}

NextSign == UserSecretKey_sign \/ Nym_verify_call

SpecSign == InitSign /\ [][NextSign]_vars

SignVerdict == proto = "sign" /\ res["org"] # "none"

\* The signature verified was made with the verifying nym, over the
\* transcript it is verified with
SameNym == inp.sign_nym = inp.nym

SameTranscript == inp.sign_t = inp.verify_t

C16_WitnessRejected ==
    /\ SignVerdict /\ res["org"] = "BadSignature"
    /\ inp.sign_nym.a # inp.nym.a /\ SameTranscript
    /\ loc["user"].c = loc["org"].c /\ loc["user"].r # 0

-----------------------------------------------------------------------------
(* The derivation of the challenge of a stored transcript, checked under
   SpecNI *)

\* The derivation that opens a transcript labelled "nym/0.1/dlog-eq-proof/
\* non-interactive-challenge", commits g1, h1, g2, h2 of p, then a and b,
\* under the six labels L in this order, and extracts under label c
Derivation(L, p, a, b) ==
    <<"nym/0.1/dlog-eq-proof/non-interactive-challenge",
      <<L[1], p.g1>>, <<L[2], p.h1>>, <<L[3], p.g2>>, <<L[4], p.h2>>,
      <<L[5], a>>, <<L[6], b>>, "c">>

\* Every challenge derived so far was derived with the labels L from six
\* values, and the challenge of the transcript just verified was derived
\* from the publics and the a and b it was verified with
DerivedWith(L) ==
    /\ \A e \in ro :
          /\ Len(e[1]) = 8
          /\ \E p \in PublicsSet, a \in Point, b \in Point :
                e[1] = Derivation(L, p, a, b)
    /\ NIVerdict =>
          \E e \in ro :
             e[1] = Derivation(L, loc["org"].pub, loc["org"].T1.a,
                               loc["org"].T1.b)

\* C17 as stated: the Pi_NI challenge derivation opens a transcript labelled
\* "nym/0.1/dlog-eq-proof/non-interactive-challenge", commits exactly six
\* values in the order g1, h1, g2, h2, a, b under the field labels g1, h1,
\* g2, h2, a, b, and then extracts the challenge under label c.
C17_LabelsAsSpecified == DerivedWith(<<"g1", "h1", "g2", "h2", "a", "b">>)

\* C17 as amended: the same transcript label, values, order and challenge
\* label, the six field labels being g, h, g~, h~, a, b.
C17_ChallengeDerivation == DerivedWith(<<"g", "h", "g~", "h~", "a", "b">>)

\* A transcript with a # b was verified, its challenge having been derived,
\* under publics in which the values committed next to each other differ.
C17_Witness ==
    /\ NIVerdict /\ ro # {}
    /\ loc["org"].T1.a # loc["org"].T1.b
    /\ loc["org"].pub.g1 # loc["org"].pub.h1
    /\ loc["org"].pub.g2 # loc["org"].pub.h2
    /\ loc["org"].pub.g1 # loc["org"].pub.g2

-----------------------------------------------------------------------------
(* Ownership of an organization key: key.rs, OrgSecretKey::prove_ownership
   against OrgPublicKey::verify_ownership.  The organization is the prover
   and the user the verifier. *)

\* The organization with secret key (x1, x2) proves ownership to a user who
\* holds the matching public key.
InitOwn ==
    /\ proto = "own"
    /\ \E x1 \in Scalar, x2 \in Scalar :
          LET k == OrgSecretKey_first(x1, x2)
              pk == OrgPublicKey(x1, x2)
          IN  /\ inp = [Inp0 EXCEPT !.ox1 = x1, !.ox2 = x2, !.source_key = pk]
              /\ loc = [s \in Side |->
                          IF s = "org"
                          THEN [Loc0 EXCEPT !.phase = 1,
                                            !.pub = OwnershipPublics(k.public),
                                            !.x = k.secret]
                          ELSE [Loc0 EXCEPT !.phase = 1,
                                            !.pub = OwnershipPublics(pk.key1)]]
    /\ inbox = [s \in Side |-> <<>>]
    /\ pc = [s \in Side |-> IF s = "org" THEN "prove.a" ELSE "verify.a"]
    /\ res = [s \in Side |-> "none"]
    /\ out = [s \in Side |-> Out0]
    /\ ro = {}
    /\ tamper = "none"
    /\ wire = <<>>
    /\ io = [s \in Side |-> "ok"]
    /\ dropped = {}

OwnProver == \/ Prove_SendA("org")
             \/ Prove_SendB("org")
             \/ Prove_RecvC("org")
             \/ Prove_SendY("org")

OwnVerifier == \/ Verify_RecvA("user")
               \/ Verify_RecvB("user")
               \/ Verify_SendC("user")
               \/ Verify_RecvY("user")

NextOwn == OwnProver \/ OwnVerifier

SpecOwn == InitOwn /\ [][NextOwn]_vars

\* The number of messages of one run of Pi: a, b, c, y
PiMessages == 4

\* Each run is on (G, P, G, P) with the matching exponent, first the first
\* point and then the second, and no role returns anything but Ok
OwnRuns ==
    proto = "own" =>
       /\ \A s \in Side : loc[s].phase \in {1, 2} /\ res[s] \in {"none", "Ok"}
       /\ \A s \in Side :
             LET P == IF loc[s].phase = 1 THEN to_public(inp.ox1)
                                          ELSE to_public(inp.ox2)
             IN  loc[s].pub = Publics(RISTRETTO_BASEPOINT_POINT, P,
                                      RISTRETTO_BASEPOINT_POINT, P)
       /\ loc["org"].x = IF loc["org"].phase = 1 THEN inp.ox1 ELSE inp.ox2

\* The verifier is in its second run only if it accepted the first
VerifierSecondAfterAccept ==
    (proto = "own" /\ loc["user"].phase = 2) =>
       LET T == loc["user"].T1
           p == OwnershipPublics(to_public(inp.ox1))
       IN  /\ A_ok(p, T.a, T.c, T.y) /\ B_ok(p, T.b, T.c, T.y)
           /\ Len(wire) >= PiMessages

\* C18 as stated: ownership is proved as two sequential Pi runs, first for
\* the first public point and then for the second, each with publics
\* (G, P, G, P) and the matching secret exponent; an honest run returns Ok on
\* both sides; and the second Pi run starts only after the first has been
\* accepted: no message of the second run is sent before the verifier has
\* accepted the first.
C18_SecondAfterFirstAccepted ==
    /\ OwnRuns
    /\ VerifierSecondAfterAccept
    /\ (proto = "own" /\ Len(wire) > PiMessages) => loc["user"].phase = 2

\* C18 as amended: the same, except that only the verifier starts its second
\* run after the first has been accepted; the prover starts its second run
\* once it has sent the response y of the first.
C18_OwnershipSequential ==
    /\ OwnRuns
    /\ VerifierSecondAfterAccept
    /\ (proto = "own" /\ loc["org"].phase = 2) => Len(wire) >= PiMessages
    /\ (proto = "own" /\ Len(wire) > PiMessages) => loc["org"].phase = 2

\* Both sides have returned Ok after two runs on different public points,
\* with nonzero challenge in the second.
C18_Witness ==
    /\ proto = "own" /\ BothOk
    /\ inp.ox1 # inp.ox2 /\ inp.ox1 # 0 /\ inp.ox2 # 0
    /\ Len(wire) = 2 * PiMessages
    /\ loc["user"].c # 0 /\ loc["user"].T1.c # 0

-----------------------------------------------------------------------------
(* The Gamma prover and the hidden challenge, checked under SpecGamma *)

\* The prover of the run has sent a (and fixed b), has received c
GammaCommitted ==
    proto = "gamma" /\ pc["org"] \in {"bprove.b", "bprove.c", "bprove.y", "done"}

GammaAnswered == proto = "gamma" /\ pc["org"] \in {"bprove.y", "done"}

\* C21: the Gamma prover (blind_dlog_eq::prove) acts exactly as the Pi prover
\* (dlog_eq::prove): for the same publics (g1, h1, g2, h2), witness x, nonce
\* r and received challenge c it sends a = r.g1 under label a, b = r.g2
\* under label b and y = r + c.x under label y.
C21_GammaProverAsPi ==
    LET l == loc["org"]
    IN  /\ GammaCommitted
           => /\ l.a = Mul(l.r, l.pub.g1)
              /\ l.b = Mul(l.r, l.pub.g2)
        /\ GammaAnswered => l.y = Add(l.r, Mul(l.c, l.x))
        /\ proto = "gamma"
           => \A i \in 1 .. Len(wire) :
                 wire[i][1] = "org"
                 => wire[i][2] = CASE i = 1 -> "a" [] i = 2 -> "b" [] OTHER -> "y"

\* The verifier of the run has derived the hidden challenge and sent c
GammaChallenged == proto = "gamma" /\ pc["user"] \in {"bverify.y", "done"}

\* C22: in the Gamma verifier the hidden challenge c* is the Pi_NI challenge
\* on the blinded statement, non_interactive_challenge_for applied to
\* (g1, h1, gamma.g2, gamma.h2) and (a', b'), and the challenge sent is
\* c = c* + beta; hence the emitted transcript passes Transcript::verify,
\* with its recomputation of the challenge, under the blinded publics.
C22_HiddenChallengeIsNI ==
    LET l == loc["user"]
        p == Blinded(l.pub, l.gamma)
    IN  /\ GammaChallenged
           => /\ <<NIQuery(p, l.a1, l.b1), l.cs>> \in ro
              /\ l.c = Add(l.cs, l.beta)
        /\ (proto = "gamma" /\ res["user"] = "Ok")
           => /\ out["user"].T.c = l.cs
              /\ A_ok(p, out["user"].T.a, l.cs, out["user"].T.y)
              /\ B_ok(p, out["user"].T.b, l.cs, out["user"].T.y)

-----------------------------------------------------------------------------
(* The verdict of the Gamma verifier in an issuance, checked under
   SpecIssue *)

\* The user takes the response y of a Gamma run
GammaVerdictStep == pc["user"] = "bverify.y" /\ pc'["user"] # "bverify.y"

\* Both relations of Pi hold of the commitments received, the challenge
\* sent and the response at the head of the user's queue
RelationsHold ==
    LET l == loc["user"]
        y == Received("user")
    IN  /\ Mul(y, l.pub.g1) = Add(l.a, Mul(l.c, l.pub.h1))
        /\ Mul(y, l.pub.g2) = Add(l.b, Mul(l.c, l.pub.h2))

\* The transcript (a', b', c*, y + alpha) of the run that ends
Emitted ==
    LET l == loc["user"]
    IN  Transcript(l.a1, l.b1, l.cs, Add(Received("user"), l.alpha))

\* C23: the Gamma verifier outputs a transcript only when both relations
\* y.g1 = a + c.h1 and y.g2 = b + c.h2 hold for the challenge c it sent, and
\* returns BadProof otherwise; User.issue_credential returns a Cred only if
\* both Gamma runs were accepted, and an error with no Cred if either is
\* rejected.
C23_TranscriptOnlyWhenAccepted ==
    /\ [](proto = "issue"
          => /\ res["user"] \in {"none", "Ok", "BadProof"}
             /\ res["user"] = "Ok" => loc["user"].phase = 2
             /\ res["user"] # "Ok" => out["user"].cred = NoCred)
    /\ [][(proto = "issue" /\ GammaVerdictStep)
          => /\ (RelationsHold /\ loc["user"].phase = 1)
                => /\ res'["user"] = "none" /\ pc'["user"] = "bverify.a"
                   /\ loc'["user"].phase = 2 /\ loc'["user"].T1 = Emitted
             /\ (RelationsHold /\ loc["user"].phase = 2)
                => /\ res'["user"] = "Ok"
                   /\ out'["user"].cred.T1 = loc["user"].T1
                   /\ out'["user"].cred.T2 = Emitted
             /\ ~RelationsHold
                => /\ res'["user"] = "BadProof" /\ pc'["user"] = "done"
                   /\ out'["user"] = Out0
             /\ loc'["user"].phase = 2 => (RelationsHold \/ loc["user"].phase = 2)
         ]_vars

\* The first run of an issuance was accepted and the second rejected: the
\* user has returned BadProof and no Cred, holding the first transcript.
C23_Witness ==
    /\ proto = "issue" /\ res["user"] = "BadProof"
    /\ loc["user"].phase = 2 /\ out["user"].cred = NoCred
    /\ loc["user"].gamma # 0 /\ loc["user"].c # 0

\* Both runs were accepted and a Cred returned.
C23_WitnessCred ==
    /\ proto = "issue" /\ res["user"] = "Ok"
    /\ out["user"].cred # NoCred /\ loc["user"].gamma # 0

-----------------------------------------------------------------------------
(* The order of commitments and challenge: runs of Pi alone, of Gamma alone
   and the two Gamma runs of an issuance *)

InitProofs ==
    \/ InitPi
    \/ InitGamma
    \/ \E x1 \in 1 .. (Q - 1), x2 \in 1 .. (Q - 1) :
          IssueStarts(1, RISTRETTO_BASEPOINT_POINT, x1, x2)

NextProofs ==
    \/ PiProver \/ PiVerifier
    \/ GammaProver \/ GammaVerifier
    \/ IssueOrg \/ IssueUser

SpecProofs == InitProofs /\ [][NextProofs]_vars

\* The role that verifies in the run
Verifier == IF proto = "pi" THEN "org" ELSE "user"

\* The messages labelled L that side s has sent so far
SentCount(s, L) ==
    Cardinality({i \in 1 .. Len(wire) : wire[i] = <<s, L>>})

\* The messages labelled L waiting in the queue of side s
Waiting(s, L) ==
    Cardinality({i \in 1 .. Len(inbox[s]) : inbox[s][i].label = L})

\* The messages labelled L that the verifier has received
VerifierReceived(L) ==
    SentCount(Peer(Verifier), L) - Waiting(Verifier, L)

\* C24: in every run of Pi and of Gamma the verifier sends its challenge c
\* only after it has received both commitments a and b, which therefore do
\* not depend on c: in no reachable state has c been sent while a or b of
\* its run is still unreceived by the verifier.
C24_CommitBeforeChallenge ==
    /\ SentCount(Verifier, "c") <= VerifierReceived("a")
    /\ SentCount(Verifier, "c") <= VerifierReceived("b")
    /\ SentCount(Peer(Verifier), "y") <= SentCount(Verifier, "c")

\* The challenge of the second Gamma run of an issuance has been sent, the
\* commitments of both runs having been received.
C24_Witness ==
    /\ proto = "issue" /\ SentCount("user", "c") = 2
    /\ VerifierReceived("a") = 2 /\ VerifierReceived("b") = 2
    /\ loc["user"].c # 0 /\ loc["org"].r # 0

\* The challenge of a run of Pi has been sent.
C24_WitnessPi ==
    /\ proto = "pi" /\ SentCount("org", "c") = 1
    /\ VerifierReceived("a") = 1 /\ VerifierReceived("b") = 1

-----------------------------------------------------------------------------
(* The stored checks of a transfer come first, checked under SpecTransfer *)

\* The stored transcript T passed Transcript::verify under publics p
Passed(T, p) ==
    \E e \in ro : e[1] = NIQuery(p, T.a, T.b) /\ Transcript_verify(T, p, e[2])

\* The organization has sent nothing and taken nothing from its queue:
\* what the user has sent is all there
OrgTouchedNothing ==
    /\ SentCount("org", "c") = 0
    /\ \A i \in 1 .. Len(wire) : wire[i][1] = "user"
    /\ Len(inbox["org"]) = Len(wire)
    /\ inbox["user"] = <<>>

\* C25: Org.transfer_credential checks both stored transcripts, T1 then T2,
\* before its first channel operation: if either check fails it returns
\* BadProof having sent nothing and received nothing, so any messages the
\* user already sent remain unconsumed in the channel.
C25_StoredChecksFirst ==
    /\ [](proto = "transfer"
          => /\ loc["org"].phase < 2 => OrgTouchedNothing
             /\ loc["org"].phase = 2
                => /\ Passed(inp.cred.T1,
                             TransferPublics1(inp.cred, inp.source_key))
                   /\ Passed(inp.cred.T2,
                             TransferPublics2(inp.cred, inp.source_key))
             /\ pc["org"] = "ot.T2"
                => Passed(inp.cred.T1,
                          TransferPublics1(inp.cred, inp.source_key)))
    /\ [][(proto = "transfer" /\ pc["org"] \in {"ot.T1", "ot.T2"}
           /\ pc'["org"] # pc["org"])
          => /\ inbox' = inbox /\ wire' = wire
             /\ pc'["org"] = "done" => res'["org"] = "BadProof"
             /\ (pc["org"] = "ot.T1" /\ pc'["org"] # "done")
                => pc'["org"] = "ot.T2"
         ]_vars

\* The check of T2 failed after that of T1 passed, while the commitments a
\* and b the user sent wait in the organization's queue.
C25_Witness ==
    /\ proto = "transfer" /\ res["org"] = "BadProof"
    /\ loc["org"].phase = 1
    /\ Len(inbox["org"]) = 2 /\ pc["user"] = "prove.c"
    /\ loc["user"].r # 0

-----------------------------------------------------------------------------
(* The channel after a run: pseudonym generation, authentication, issuance,
   transfer and ownership on a channel pair that starts empty *)

InitRuns ==
    \/ InitNym
    \/ InitAuth
    \/ InitOwn
    \/ \E x1 \in 1 .. (Q - 1), x2 \in 1 .. (Q - 1) :
          \/ IssueStarts(1, RISTRETTO_BASEPOINT_POINT, x1, x2)
          \/ ShowStarts(1, x1, x2, RISTRETTO_BASEPOINT_POINT,
                        RISTRETTO_BASEPOINT_POINT, 1)

NextRuns ==
    \/ NextNym
    \/ NextIssue
    \/ TransferOrg
    \/ OwnProver \/ OwnVerifier

SpecRuns == InitRuns /\ [][NextRuns]_vars

\* C26: after any honest run in which both roles return Ok (nym generation,
\* authentication, issuance, transfer, ownership) both directions of the
\* channel are empty: every message sent was received by the peer, so a
\* following run on the same channel pair starts with no stale message.
C26_ChannelEmptyAfterRun ==
    BothOk => /\ inbox["user"] = <<>> /\ inbox["org"] = <<>>
              /\ wire # <<>>

\* An issuance has ended with Ok on both sides, ten messages having been
\* sent.
C26_Witness ==
    /\ BothOk /\ proto = "issue" /\ Len(wire) = 10
    /\ inbox["user"] = <<>> /\ inbox["org"] = <<>>

-----------------------------------------------------------------------------
(* What the proving role returns: runs in which the verifier may reject, over
   a channel whose operations may fail *)

\* Pseudonym generation and authentication; an issuance under the key
\* (1, 2), whose Gamma runs the user may reject; a transfer in which the
\* user proves with any secret
InitVerdict ==
    \/ InitNym
    \/ InitAuth
    \/ IssueStarts(1, RISTRETTO_BASEPOINT_POINT, 1, 2)
    \/ \E ux \in 1 .. (Q - 1) :
          ShowStarts(1, 1, 1, RISTRETTO_BASEPOINT_POINT,
                     RISTRETTO_BASEPOINT_POINT, ux)

NextVerdict == RoleSteps \/ (\E s \in Side : Channel_fails(s))

SpecVerdict == InitVerdict /\ [][NextVerdict]_vars

\* The role that proves: Org.issue_credential in an issuance, the user in
\* generate_nym, authenticate_nym and transfer_credential
Proving == IF proto = "issue" THEN "org" ELSE "user"

\* C27: prover-side roles never return BadProof and never learn the
\* verifier's verdict: User.generate_nym, User.authenticate_nym,
\* User.transfer_credential and Org.issue_credential return Ok whenever all
\* their channel operations succeed, even in runs where the peer verifier
\* returns BadProof; their only possible error is a transport error.
C27_ProverNeverRejects ==
    /\ res[Proving] \in {"none", "Ok", "Transport"}
    /\ res[Proving] = "Transport" <=> io[Proving] = "error"
    /\ (pc[Proving] = "done" /\ io[Proving] = "ok") => res[Proving] = "Ok"

\* The organization has returned Ok from an issuance whose second Gamma run
\* the user rejected.
C27_Witness ==
    /\ proto = "issue" /\ res["org"] = "Ok" /\ res["user"] = "BadProof"
    /\ io = [s \in Side |-> "ok"]

\* The user has returned Ok from a transfer that the organization rejected
\* in the interactive proof.
C27_WitnessTransfer ==
    /\ proto = "transfer" /\ res["user"] = "Ok" /\ res["org"] = "BadProof"
    /\ loc["org"].phase = 2

====
